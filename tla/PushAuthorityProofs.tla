------------------------ MODULE PushAuthorityProofs -------------------------
(***************************************************************************)
(* What becomes of a registration, whoever changes it and whatever is in   *)
(* flight: its authority only moves forward, its nonces are bound once, it *)
(* is active only if its endpoint proved itself, and the server as a whole *)
(* is an implementation of PushLifecycle.  Every transaction of every      *)
(* actor is first shown to change the registrations in one of five ways.   *)
(***************************************************************************)
EXTENDS PushHistoryProofs

-----------------------------------------------------------------------------
(* The ways a step changes registrations *)

RowsStay == db'.reg = db.reg /\ db'.nonces = db.nonces

\* A PUT that was allowed: a pending row with a nonce of its own.
Renewed(i) ==
  \E p \in Principal, body \in Body :
    /\ Opened
    /\ PutAllowed(db, p, i, body)
    /\ db'.reg = [db.reg EXCEPT ![i] = PendingRow(db, p, i, body, now)]
    /\ db'.nonces = db.nonces \cup {<<i, body.nonce>>}

\* A confirmation that presented the secret.
Confirmed(i) ==
  /\ db.reg[i].status = "pending"
  /\ \E c \in confirms : c.secret # 0 /\ c.secret = db.reg[i].challenge
  /\ db'.reg = [db.reg EXCEPT ![i] = [db.reg[i] EXCEPT !.status = "active",
                                                       !.challenge = 0]]
  /\ db'.nonces = db.nonces

\* A revocation, by its owner or because the endpoint is gone.
Revoked(i) ==
  /\ db.reg[i].status # "revoked"
  /\ db'.reg = [db.reg EXCEPT ![i] = db'.reg[i]]
  /\ db'.reg[i].status = "revoked"
  /\ db'.reg[i].generation = db.reg[i].generation + 1
  /\ db'.reg[i].revision = db.reg[i].revision
  /\ db'.reg[i].nonce = db.reg[i].nonce
  /\ Exists(db, i) => db'.reg[i].owner = db.reg[i].owner
  /\ db'.nonces = db.nonces

\* A store is opened that an older version wrote.
Upgraded ==
  /\ db'.reg = [i \in Installation |->
                  IF Legacy(db, i) THEN MigratedRow(db.reg[i]) ELSE db.reg[i]]
  /\ db'.nonces = db.nonces \cup {<<i, db.reg[i].nonce>> :
                     i \in {k \in Installation : db.reg[k].nonce # None}}

Authorizes ==
  \/ RowsStay
  \/ \E i \in Installation : Renewed(i) \/ Confirmed(i) \/ Revoked(i)
  \/ Upgraded

\* Recording an event and moving a hint leave the registrations alone.
LEMMA RecordRows ==
  ASSUME NEW d, Consistent(d), Sound(d), NEW ev \in HookEvent,
         NEW targets \in Targets, NEW pol \in Policy,
         NEW order \in ScanOrders(Recipients(d, ev, targets, pol)),
         NEW expires \in Nat, NEW time \in Nat
  PROVE  LET f == Record(d, ev, targets, pol, order, expires, time)
         IN  f.reg = d.reg /\ f.nonces = d.nonces
<1> DEFINE f == Record(d, ev, targets, pol, order, expires, time)
           R == Recipients(d, ev, targets, pol)
<1>1. f = d \/ f = Prune(d, time) \/ Recording(d, f, ev, R)
  BY RecordSteps
<1> HIDE DEF f, R
<1>2. ASSUME f = Prune(d, time)
      PROVE  f.reg = d.reg /\ f.nonces = d.nonces
  <2>1. Trims(d, f)
    BY <1>2, PruneTrims
  <2> QED  BY <2>1 DEF Trims
<1>3. ASSUME Recording(d, f, ev, R)
      PROVE  f.reg = d.reg /\ f.nonces = d.nonces
  <2>1. PICK e, t, s, q :
          /\ Trims(d, e) /\ Trims(e, t) /\ SameButAttention(t, s)
          /\ Adds(s, q, ev, R) /\ Consistent(q) /\ Sound(q)
          /\ \E n : f = Prune(q, n)
    BY <1>3 DEF Recording
  <2>2. PICK n : f = Prune(q, n)
    BY <2>1
  <2>3. Trims(q, f)
    BY <2>1, <2>2, PruneTrims
  <2> QED  BY <2>1, <2>3 DEF Trims, SameButAttention, Adds
<1>4. f.reg = d.reg /\ f.nonces = d.nonces
  BY <1>1, <1>2, <1>3
<1> QED  BY <1>4 DEF f

LEMMA QueueRows ==
  ASSUME NEW d, Consistent(d), Sound(d), NEW time \in Nat
  PROVE  /\ BeforeClaim(d, time).reg = d.reg
         /\ BeforeClaim(d, time).nonces = d.nonces
<1> DEFINE e == Prune(d, time)
<1>1. Consistent(e) /\ Sound(e) /\ Trims(d, e)
  BY PruneTransacts, PruneTrims DEF Transacts
<1>2. BeforeClaim(d, time) = CloseExhausted(e, time)
  BY DEF BeforeClaim
<1> HIDE DEF e
<1>3. Moves(e, CloseExhausted(e, time))
  BY <1>1, CloseExhaustedMoves
<1> QED  BY <1>1, <1>2, <1>3 DEF Trims, Moves

\* The rows a renewal writes, before and after it prunes.
LEMMA PutRows ==
  ASSUME NEW d, Consistent(d), Sound(d), NEW p \in Principal,
         NEW i \in Installation, NEW body \in Body, NEW time \in Nat
  PROVE  LET f == Put(d, p, i, body, time)
         IN  /\ f.reg = [d.reg EXCEPT ![i] = PendingRow(d, p, i, body, time)]
             /\ f.nonces = d.nonces \cup {<<i, body.nonce>>}
<1> DEFINE e == Proposed(d, p, i, body, time)
           f == Put(d, p, i, body, time)
           row == PendingRow(d, p, i, body, time)
<1>1. f = Prune(e, time)
  BY DEF Put, Proposed
<1>2. /\ Consistent(e) /\ Renews(d, e, i) /\ e.reg[i] = row
  BY ProposedRenews, ProposedConsistent
<1>3. row.nonce = body.nonce
  BY DEF PendingRow
<1> HIDE DEF e, f, row
<1>4. Sound(e)
  BY <1>2, RenewsSound
<1>5. Trims(e, f)
  BY <1>1, <1>2, <1>4, PruneTrims
<1>6. e.reg = [d.reg EXCEPT ![i] = row] /\ e.nonces = d.nonces \cup {<<i, body.nonce>>}
  BY <1>2, <1>3 DEF Renews
<1> QED  BY <1>5, <1>6 DEF Trims, f, row

\* A hint is queued only while its registration may be sent to.
LEMMA QueuedAuthority ==
  ASSUME NEW d, Consistent(d), NEW j \in d.outbox
  PROVE  /\ j.installation \in Installation
         /\ j.generation = d.reg[j.installation].generation
         /\ d.reg[j.installation].status \in {"pending", "active"}
<1>1. j.installation \in Installation
  BY DEF Consistent, DB, Job
<1>2. /\ HintFits(d.reg[j.installation], j.hint)
      /\ j.generation = d.reg[j.installation].generation
  BY DEF Consistent, QueueCurrent
<1> QED  BY <1>1, <1>2 DEF HintFits

LEMMA RevokeInRows ==
  ASSUME NEW i \in Installation, Consistent(db), Sound(db),
         db.reg[i].status \in {"pending", "active"}, db' = RevokeIn(db, i)
  PROVE  Revoked(i)
<1>1. /\ db'.reg = [db.reg EXCEPT ![i] = RevokedFrom(db.reg[i])]
      /\ db'.nonces = db.nonces
  BY RevokeInEnds
<1>2. db.reg \in [Installation -> Row] /\ db.reg[i] \in Row
  BY DEF Consistent, DB
<1> DEFINE x == RevokedFrom(db.reg[i])
<1>3. /\ x.status = "revoked" /\ x.generation = db.reg[i].generation + 1
      /\ x.nonce = db.reg[i].nonce /\ x.revision = db.reg[i].revision
      /\ x.owner = db.reg[i].owner
  BY <1>2 DEF RevokedFrom, Row
<1> HIDE DEF x
<1>4. db'.reg[i] = x /\ db'.reg = [db.reg EXCEPT ![i] = db'.reg[i]]
  BY <1>1, <1>2 DEF x
<1> QED  BY <1>1, <1>3, <1>4 DEF Revoked

LEMMA StepsAuthorize ==
  ASSUME TypedInv, Sound(db), Writes
  PROVE  Authorizes
<1>1. TypeOK /\ Consistent(db) /\ now \in Nat
  BY DEF TypedInv, TypeOK
<1>2. ASSUME NEW c \in puts, Opened,
             PutAllowed(db, c.principal, c.installation, c.body),
             db' = Put(db, c.principal, c.installation, c.body, now)
      PROVE  Authorizes
  <2>1. c.principal \in Principal /\ c.installation \in Installation /\ c.body \in Body
    BY <1>1 DEF TypeOK, PutCall
  <2>2. /\ db'.reg = [db.reg EXCEPT ![c.installation] =
                        PendingRow(db, c.principal, c.installation, c.body, now)]
        /\ db'.nonces = db.nonces \cup {<<c.installation, c.body.nonce>>}
    BY <1>1, <1>2, <2>1, PutRows
  <2>3. Renewed(c.installation)
    BY <1>2, <2>1, <2>2 DEF Renewed
  <2> QED  BY <2>1, <2>3 DEF Authorizes
<1>3. ASSUME NEW c \in confirms,
             ConfirmAllowed(db, c.principal, c.installation, c.generation, c.secret,
                            c.policy, durable, now),
             db' = Confirm(db, c.installation)
      PROVE  Authorizes
  <2>1. c.installation \in Installation
    BY <1>1 DEF TypeOK, ConfirmCall
  <2>2. /\ db.reg[c.installation].status = "pending"
        /\ c.secret # 0 /\ c.secret = db.reg[c.installation].challenge
    BY <1>3 DEF ConfirmAllowed
  <2>3. /\ db'.reg = [db.reg EXCEPT ![c.installation] =
                        [db.reg[c.installation] EXCEPT !.status = "active",
                                                       !.challenge = 0]]
        /\ db'.nonces = db.nonces
    BY <1>1, <1>3, <2>1, <2>2, ConfirmEnds
  <2>4. Confirmed(c.installation)
    BY <2>2, <2>3 DEF Confirmed
  <2> QED  BY <2>1, <2>4 DEF Authorizes
<1>4. ASSUME NEW p \in Principal, NEW i \in Installation, db' = Revoke(db, p, i)
      PROVE  Authorizes
  <2> DEFINE f == Revoke(db, p, i)
  <2>0. \/ f = db
        \/ /\ Ends(db, f, {i})
           /\ f.reg = [db.reg EXCEPT ![i] = f.reg[i]]
           /\ f.reg[i].status = "revoked"
           /\ f.reg[i].generation = db.reg[i].generation + 1
           /\ f.reg[i].nonce = db.reg[i].nonce
           /\ f.reg[i].revision = db.reg[i].revision
           /\ Exists(db, i) => f.reg[i].owner = db.reg[i].owner
           /\ db.reg[i].status # "revoked"
           /\ f.nonces = db.nonces
    BY <1>1, RevokeEnds, Zenon
  <2> HIDE DEF f
  <2>1. db' = db \/ Revoked(i)
    BY <1>4, <2>0 DEF Revoked, f
  <2> QED  BY <2>1 DEF Authorizes, RowsStay
<1>5. ASSUME RecordsEvent
      PROVE  Authorizes
  <2>1. PICK ev \in HookEvent, targets \in Targets, pol \in Policy, expires \in Nat :
          \E order \in ScanOrders(Recipients(db, ev, targets, pol)) :
            db' = Record(db, ev, targets, pol, order, expires, now)
    BY <1>5 DEF RecordsEvent
  <2>2. RowsStay
    BY <1>1, <2>1, RecordRows DEF RowsStay
  <2> QED  BY <2>2 DEF Authorizes
<1>6. ASSUME NEW j \in db.outbox,
             db' \in {DropJob(db, j), SettleJob(db, j), RetryJob(db, j, now),
                      RevokeIn(db, j.installation)}
      PROVE  Authorizes
  <2>1. /\ j.installation \in Installation
        /\ db.reg[j.installation].status \in {"pending", "active"}
    BY <1>1, QueuedAuthority
  <2>2. CASE db' = RevokeIn(db, j.installation)
    <3>1. Revoked(j.installation)
      BY <1>1, <2>1, <2>2, RevokeInRows
    <3> QED  BY <2>1, <3>1 DEF Authorizes
  <2>3. CASE db' \in {DropJob(db, j), SettleJob(db, j), RetryJob(db, j, now)}
    <3>1. Moves(db, db')
      BY <1>1, <2>3, DropJobMoves, SettleJobMoves, RetryJobMoves
    <3> QED  BY <3>1 DEF Moves, Authorizes, RowsStay
  <2> QED  BY <1>6, <2>2, <2>3
<1>7. ASSUME db' = Migrate(db)
      PROVE  Authorizes
  <2> DEFINE I == {i \in Installation : Legacy(db, i)}
  <2>1. /\ Migrate(db).reg = [i \in Installation |->
                                IF i \in I THEN MigratedRow(db.reg[i]) ELSE db.reg[i]]
        /\ Migrate(db).nonces = db.nonces \cup {<<i, db.reg[i].nonce>> :
                           i \in {k \in Installation : db.reg[k].nonce # None}}
    BY <1>1, MigrateEnds
  <2>2. Upgraded
    BY <1>7, <2>1 DEF Upgraded
  <2> QED  BY <2>2 DEF Authorizes
<1>8. ASSUME db' = BeforeClaim(db, now)
      PROVE  Authorizes
  BY <1>1, <1>8, QueueRows DEF Authorizes, RowsStay
<1>9. ASSUME NEW r \in Runtime, Claims(r)
      PROVE  Authorizes
  <2> DEFINE e == BeforeClaim(db, now)
  <2>1. PICK j \in OldestDue(e, now) : db' = ClaimRow(e, j, r, now)
    BY <1>9 DEF Claims
  <2>2. j \in e.outbox
    BY DEF OldestDue, Due
  <2>3. Consistent(e) /\ e.reg = db.reg /\ e.nonces = db.nonces
    BY <1>1, BeforeClaimTransacts, QueueRows DEF Transacts
  <2>4. db'.reg = e.reg /\ db'.nonces = e.nonces
    BY <2>1, <2>3 DEF ClaimRow, ReplaceJob, Consistent, DB
  <2> QED  BY <2>3, <2>4 DEF Authorizes, RowsStay
<1> QED  BY <1>2, <1>3, <1>4, <1>5, <1>6, <1>7, <1>8, <1>9
      DEF Writes, Authorizes, RowsStay

-----------------------------------------------------------------------------
(* Authority *)

LEMMA PendingStep ==
  ASSUME NEW d, Consistent(d), Sound(d), NEW p \in Principal,
         NEW i \in Installation, NEW body \in Body, NEW time \in Nat,
         PutAllowed(d, p, i, body)
  PROVE  AuthorityStep(d.reg[i], PendingRow(d, p, i, body, time))
<1> DEFINE old == d.reg[i]
           new == PendingRow(d, p, i, body, time)
<1>1. old \in Row
  BY DEF Consistent, DB
<1>2. /\ new.generation = old.generation + 1 /\ new.revision = body.revision
      /\ new.status = "pending" /\ new.owner = p
  BY DEF PendingRow
<1>3. old.generation \in Nat /\ body.revision \in Nat \ {0} /\ old.revision \in Nat
  BY <1>1, StoreAssumption DEF Row, PutAllowed
<1>4. CASE Exists(d, i)
  <2>1. old.owner = p /\ old.status # "revoked" /\ body.revision > old.revision
    BY <1>4 DEF PutAllowed
  <2> HIDE DEF old, new
  <2>2. AuthorityStep(old, new)
    BY <1>2, <1>3, <2>1 DEF AuthorityStep
  <2> QED  BY <2>2 DEF old, new
<1>5. CASE ~ Exists(d, i)
  <2>1. old.status = "absent" /\ old.revision = 0
    BY <1>5 DEF Sound, RowsKeyed, NoRow
  <2> HIDE DEF old, new
  <2>2. AuthorityStep(old, new)
    BY <1>2, <1>3, <2>1 DEF AuthorityStep
  <2> QED  BY <2>2 DEF old, new
<1> QED  BY <1>4, <1>5

\* Each way of changing a registration is a step forward, and a step of one.
LEMMA ForwardSteps ==
  ASSUME TypedInv, Sound(db), NEW i \in Installation
  PROVE  /\ RowsStay => AuthorityStep(db.reg[i], db'.reg[i])
         /\ Renewed(i) \/ Confirmed(i) \/ Revoked(i)
              => /\ AuthorityStep(db.reg[i], db'.reg[i])
                 /\ \A k \in Installation \ {i} : db'.reg[k] = db.reg[k]
         /\ Upgraded => AuthorityStep(db.reg[i], db'.reg[i])
<1>1. /\ Consistent(db) /\ now \in Nat /\ db.reg \in [Installation -> Row]
      /\ db.reg[i] \in Row
  BY DEF TypedInv, TypeOK, Consistent, DB
<1>2. db.reg[i].generation \in Nat /\ db.reg[i].revision \in Nat
  BY <1>1 DEF Row
<1>3. AuthorityStep(db.reg[i], db.reg[i])
  BY <1>2 DEF AuthorityStep
<1>4. ASSUME Renewed(i)
      PROVE  /\ AuthorityStep(db.reg[i], db'.reg[i])
             /\ \A k \in Installation \ {i} : db'.reg[k] = db.reg[k]
  <2>1. PICK p \in Principal, body \in Body :
          /\ PutAllowed(db, p, i, body)
          /\ db'.reg = [db.reg EXCEPT ![i] = PendingRow(db, p, i, body, now)]
    BY <1>4 DEF Renewed
  <2>2. db'.reg[i] = PendingRow(db, p, i, body, now)
    BY <1>1, <2>1
  <2> QED  BY <1>1, <2>1, <2>2, PendingStep
<1>5. ASSUME Confirmed(i)
      PROVE  /\ AuthorityStep(db.reg[i], db'.reg[i])
             /\ \A k \in Installation \ {i} : db'.reg[k] = db.reg[k]
  <2> DEFINE new == [db.reg[i] EXCEPT !.status = "active", !.challenge = 0]
  <2>1. /\ db.reg[i].status = "pending"
        /\ db'.reg = [db.reg EXCEPT ![i] = new]
    BY <1>5 DEF Confirmed
  <2>2. /\ new.generation = db.reg[i].generation /\ new.revision = db.reg[i].revision
        /\ new.owner = db.reg[i].owner /\ new.endpoint = db.reg[i].endpoint
        /\ new.nonce = db.reg[i].nonce /\ new.kinds = db.reg[i].kinds
        /\ new.scope = db.reg[i].scope /\ new.status = "active"
    BY <1>1 DEF Row
  <2> HIDE DEF new
  <2>3. db'.reg[i] = new /\ \A k \in Installation \ {i} : db'.reg[k] = db.reg[k]
    BY <1>1, <2>1
  <2>4. AuthorityStep(db.reg[i], new)
    BY <1>2, <2>1, <2>2 DEF AuthorityStep
  <2> QED  BY <2>3, <2>4
<1>6. ASSUME Revoked(i)
      PROVE  /\ AuthorityStep(db.reg[i], db'.reg[i])
             /\ \A k \in Installation \ {i} : db'.reg[k] = db.reg[k]
  <2>1. AuthorityStep(db.reg[i], db'.reg[i])
    BY <1>2, <1>6 DEF AuthorityStep, Revoked, Exists
  <2> QED  BY <1>1, <1>6, <2>1 DEF Revoked
<1>7. ASSUME Upgraded
      PROVE  AuthorityStep(db.reg[i], db'.reg[i])
  <2> DEFINE new == MigratedRow(db.reg[i])
  <2>1. db'.reg[i] = IF Legacy(db, i) THEN new ELSE db.reg[i]
    BY <1>7 DEF Upgraded
  <2>2. /\ new.generation = db.reg[i].generation + 1
        /\ new.revision = db.reg[i].revision /\ new.owner = db.reg[i].owner
        /\ new.status = "upgrade_required"
    BY <1>1 DEF MigratedRow, Row
  <2>3. Legacy(db, i) => db.reg[i].status # "revoked"
    BY DEF Legacy
  <2> HIDE DEF new
  <2>4. Legacy(db, i) => AuthorityStep(db.reg[i], new)
    BY <1>2, <2>2, <2>3 DEF AuthorityStep
  <2> QED  BY <1>3, <2>1, <2>4
<1> QED  BY <1>3, <1>4, <1>5, <1>6, <1>7 DEF RowsStay

\* No transaction of any actor, in whatever order they commit, takes back an
\* authority, changes one in place, or wakes one that was revoked (put,
\* confirm, revoke_in and __init__, store.py:67-257).
THEOREM AuthorityStaysForward == Spec => AuthorityMovesForward
<1> DEFINE Step == \A i \in Installation : AuthorityStep(db.reg[i], db'.reg[i])
<1>1. ASSUME HistoryInv, [Next]_vars
      PROVE  Step
  <2>1. TypedInv /\ Sound(db)
    BY <1>1 DEF HistoryInv, PushInv
  <2>2. Authorizes
    BY <1>1, <2>1, StoreWrites, StepsAuthorize
  <2>3. \A i \in Installation : AuthorityStep(db.reg[i], db.reg[i])
    BY <2>1 DEF AuthorityStep, Row, TypedInv, Consistent, DB
  <2>4. ASSUME NEW k \in Installation, Renewed(k) \/ Confirmed(k) \/ Revoked(k)
        PROVE  Step
    <3>1. /\ AuthorityStep(db.reg[k], db'.reg[k])
          /\ \A i \in Installation \ {k} : db'.reg[i] = db.reg[i]
      BY <2>1, <2>4, ForwardSteps
    <3>2. \A i \in Installation : AuthorityStep(db.reg[i], db'.reg[i])
      BY <2>3, <3>1
    <3> QED  BY <3>2
  <2>5. ASSUME RowsStay \/ Upgraded
        PROVE  Step
    BY <2>1, <2>5, ForwardSteps
  <2> QED  BY <2>2, <2>4, <2>5 DEF Authorizes
<1>2. HistoryInv /\ [Next]_vars => [Step]_vars
  BY <1>1
<1> QED  BY <1>2, HistoryInvariant, PTL DEF Spec, AuthorityMovesForward

-----------------------------------------------------------------------------
(* Nonces *)

\* Once the store is open, every nonce in use counts as used.
LEMMA NoncesCounted ==
  ASSUME Consistent(db), Sound(db), Opened, NEW i \in Installation,
         db.reg[i].nonce # None
  PROVE  <<i, db.reg[i].nonce>> \in db.nonces
<1>1. db.nonces = db.nonces \cup {<<k, db.reg[k].nonce>> :
                     k \in {k \in Installation : db.reg[k].nonce # None}}
  BY MigrateEnds DEF Opened
<1> QED  BY <1>1

\* A registration that is renewed takes a nonce it never had, and the one it
\* gives up, be it from before nonces were remembered, is not accepted again
\* (Store.put and the migration of Store.__init__, store.py:88-98, 151-160).
THEOREM NoncesStayFresh == Spec => NoncesAreFresh
<1> DEFINE Fresh(i) == db'.reg[i].nonce # db.reg[i].nonce =>
                         /\ <<i, db'.reg[i].nonce>> \notin db.nonces
                         /\ db.reg[i].nonce # None =>
                              <<i, db.reg[i].nonce>> \in db'.nonces
           Step == db.nonces \subseteq db'.nonces /\ \A i \in Installation : Fresh(i)
<1>1. ASSUME HistoryInv, [Next]_vars
      PROVE  Step
  <2>1. /\ TypedInv /\ Sound(db) /\ Consistent(db)
        /\ db.reg \in [Installation -> Row]
    BY <1>1 DEF HistoryInv, PushInv, TypedInv, Consistent, DB
  <2>2. Authorizes
    BY <1>1, <2>1, StoreWrites, StepsAuthorize
  <2>3. ASSUME NEW k \in Installation, Renewed(k)
        PROVE  Step
    <3>1. PICK p \in Principal, body \in Body :
            /\ Opened
            /\ PutAllowed(db, p, k, body)
            /\ db'.reg = [db.reg EXCEPT ![k] = PendingRow(db, p, k, body, now)]
            /\ db'.nonces = db.nonces \cup {<<k, body.nonce>>}
      BY <2>3 DEF Renewed
    <3>2. /\ db'.reg[k].nonce = body.nonce
          /\ \A i \in Installation \ {k} : db'.reg[i] = db.reg[i]
      BY <2>1, <3>1 DEF PendingRow
    <3>3. <<k, body.nonce>> \notin db.nonces
      <4>1. body.nonce \in Nonce
        BY DEF Body
      <4>2. CASE Exists(db, k)
        BY <3>1, <4>2 DEF PutAllowed
      <4>3. CASE ~ Exists(db, k)
        BY <2>1, <4>1, <4>3 DEF Sound, RowsKeyed
      <4> QED  BY <4>2, <4>3
    <3>4. db.reg[k].nonce # None => <<k, db.reg[k].nonce>> \in db.nonces
      BY <2>1, <3>1, NoncesCounted
    <3> QED  BY <3>1, <3>2, <3>3, <3>4
  <2>4. ASSUME NEW k \in Installation, Confirmed(k)
        PROVE  Step
    <3>1. [db.reg[k] EXCEPT !.status = "active", !.challenge = 0].nonce
            = db.reg[k].nonce
      BY <2>1 DEF Row
    <3>2. \A i \in Installation : db'.reg[i].nonce = db.reg[i].nonce
      BY <2>1, <2>4, <3>1 DEF Confirmed
    <3> QED  BY <2>4, <3>2 DEF Confirmed
  <2>5. ASSUME NEW k \in Installation, Revoked(k)
        PROVE  Step
    <3>1. \A i \in Installation : db'.reg[i].nonce = db.reg[i].nonce
      BY <2>1, <2>5 DEF Revoked
    <3> QED  BY <2>5, <3>1 DEF Revoked
  <2>6. ASSUME Upgraded
        PROVE  Step
    <3>1. \A i \in Installation : MigratedRow(db.reg[i]).nonce = db.reg[i].nonce
      BY <2>1 DEF MigratedRow, Row
    <3>2. \A i \in Installation : db'.reg[i].nonce = db.reg[i].nonce
      BY <2>6, <3>1 DEF Upgraded
    <3> QED  BY <2>6, <3>2 DEF Upgraded
  <2> QED  BY <2>2, <2>3, <2>4, <2>5, <2>6 DEF Authorizes, RowsStay
<1>2. HistoryInv /\ [Next]_vars => [Step]_vars
  BY <1>1
<1> QED  BY <1>2, HistoryInvariant, PTL DEF Spec, NoncesAreFresh

-----------------------------------------------------------------------------
(* Proof of the endpoint *)

LEMMA WireGrows ==
  ASSUME TypedInv, [Next]_vars
  PROVE  wire \subseteq wire'
<1>1. wire' = wire \/ \E r \in Runtime : BeginSend(r)
  BY CalmSteps DEF Calm, Claims, SendAccepted
<1> QED  BY <1>1 DEF BeginSend

\* A client can only present a secret that was sent to an endpoint.
LEMMA SecretsStep ==
  ASSUME TypedInv, SecretsSent, [Next]_vars
  PROVE  SecretsSent'
<1> USE DEF storeVars, operatorVars, apiVars, historyVars
<1>1. wire \subseteq wire'
  BY WireGrows
<1>2. \/ confirms' \subseteq confirms
      \/ \E p \in Principal, i \in Installation, g \in Generations,
           secret \in KnownSecrets : SubmitConfirm(p, i, g, secret)
  <2>1. CASE ApiStep
    BY <2>1 DEF ApiStep, OpenStore, SubmitPut, CommitPut, CommitConfirm,
                AbandonPut, AbandonConfirm, RevokeRegistration
  <2>2. CASE ObserverStep
    BY <2>2 DEF ObserverStep, HookBegin, HookSkip, HookRun, HookCapture, HookPeek,
                HookWrite, HookBusy, HookQueue, HookFail, observerUnchanged
  <2>3. CASE WorkerStep
    BY <2>3 DEF WorkerStep, WorkerRun, FinishSend, workerUnchanged, Start, Stop, Exit,
              BeginPass, DrainPeek, DrainStore, DrainRemove, CheckInbox, ClaimJob,
              LostLease, DropUnpermitted, BeginSend, SendAccepted, SendRejected,
              SendGone, SendFailed, WorkerBusy, Crash
  <2>4. CASE OperatorStep \/ Tick \/ UNCHANGED vars
    BY <2>4 DEF OperatorStep, ChangePolicy, ChangeDurable, Tick, vars
  <2> QED  BY <2>1, <2>2, <2>3, <2>4 DEF Next
<1>3. ASSUME NEW p \in Principal, NEW i \in Installation, NEW g \in Generations,
             NEW secret \in KnownSecrets, SubmitConfirm(p, i, g, secret),
             NEW c \in confirms', c.secret # 0
      PROVE  \E w \in wire : w.kind = "challenge" /\ w.event = c.secret
  <2>1. c \in confirms \/ c.secret = secret
    BY <1>3 DEF SubmitConfirm
  <2>2. CASE c \in confirms
    BY <1>3, <2>2 DEF SecretsSent
  <2>3. CASE c.secret = secret
    BY <1>3, <2>3 DEF KnownSecrets
  <2> QED  BY <2>1, <2>2, <2>3
<1>4. \A c \in confirms' : c.secret # 0 =>
        \E w \in wire : w.kind = "challenge" /\ w.event = c.secret
  BY <1>2, <1>3 DEF SecretsSent
<1> QED  BY <1>1, <1>4 DEF SecretsSent

\* Who presents the secret of a registration was sent it: the challenge of this
\* generation reached this endpoint.
LEMMA ConfirmedWasSent ==
  ASSUME HistoryInv, SecretsSent, NEW i \in Installation, Confirmed(i)
  PROVE  \E w \in wire : /\ w.kind = "challenge"
                         /\ w.installation = i
                         /\ w.generation = db.reg[i].generation
                         /\ w.endpoint = db.reg[i].endpoint
<1>1. PICK c \in confirms : c.secret # 0 /\ c.secret = db.reg[i].challenge
  BY DEF Confirmed
<1>2. PICK w \in wire : w.kind = "challenge" /\ w.event = c.secret
  BY <1>1 DEF SecretsSent
<1>3. SecretsKept(db, wire)
  BY DEF HistoryInv, Recorded
<1> QED  BY <1>1, <1>2, <1>3 DEF SecretsKept

LEMMA ProofStep ==
  ASSUME HistoryInv, SecretsSent, ActiveIsProved, [Next]_vars
  PROVE  ActiveIsProved'
<1> DEFINE Proved(i, row) == \E w \in wire : /\ w.kind = "challenge"
                                            /\ w.installation = i
                                            /\ w.generation = row.generation
                                            /\ w.endpoint = row.endpoint
           Fit(i, row) == row.status = "active" /\ row.revision # 0 => Proved(i, row)
<1>1. /\ TypedInv /\ Sound(db) /\ wire \subseteq wire'
      /\ db.reg \in [Installation -> Row]
  BY WireGrows DEF HistoryInv, PushInv, TypedInv, Consistent, DB
<1>2. Authorizes
  BY <1>1, StoreWrites, StepsAuthorize
<1>3. \A i \in Installation : Fit(i, db.reg[i])
  BY DEF ActiveIsProved, Legacy
<1>4. ASSUME NEW k \in Installation, Renewed(k)
      PROVE  \A i \in Installation : Fit(i, db'.reg[i])
  <2>1. /\ db'.reg[k].status = "pending"
        /\ \A i \in Installation \ {k} : db'.reg[i] = db.reg[i]
    BY <1>1, <1>4 DEF Renewed, PendingRow
  <2> QED  BY <1>3, <2>1
<1>5. ASSUME NEW k \in Installation, Confirmed(k)
      PROVE  \A i \in Installation : Fit(i, db'.reg[i])
  <2> DEFINE new == [db.reg[k] EXCEPT !.status = "active", !.challenge = 0]
  <2>1. new.generation = db.reg[k].generation /\ new.endpoint = db.reg[k].endpoint
    BY <1>1 DEF Row
  <2>2. db'.reg = [db.reg EXCEPT ![k] = new]
    BY <1>5 DEF Confirmed
  <2> HIDE DEF new
  <2>3. db'.reg[k] = new /\ \A i \in Installation \ {k} : db'.reg[i] = db.reg[i]
    BY <1>1, <2>2
  <2>4. Proved(k, new)
    BY <1>5, <2>1, ConfirmedWasSent
  <2> QED  BY <1>3, <2>3, <2>4
<1>6. ASSUME NEW k \in Installation, Revoked(k)
      PROVE  \A i \in Installation : Fit(i, db'.reg[i])
  <2>1. /\ db'.reg[k].status = "revoked"
        /\ \A i \in Installation \ {k} : db'.reg[i] = db.reg[i]
    BY <1>1, <1>6 DEF Revoked
  <2> QED  BY <1>3, <2>1
<1>7. ASSUME Upgraded
      PROVE  \A i \in Installation : Fit(i, db'.reg[i])
  <2>1. \A i \in Installation : MigratedRow(db.reg[i]).status = "upgrade_required"
    BY <1>1 DEF MigratedRow, Row
  <2>2. \A i \in Installation :
          db'.reg[i] = db.reg[i] \/ db'.reg[i].status = "upgrade_required"
    BY <1>7, <2>1 DEF Upgraded
  <2> QED  BY <1>3, <2>2
<1>8. \A i \in Installation : Fit(i, db'.reg[i])
  BY <1>2, <1>3, <1>4, <1>5, <1>6, <1>7 DEF Authorizes, RowsStay
<1> QED  BY <1>1, <1>8 DEF ActiveIsProved, Legacy

\* No confirmation activates a registration whose current endpoint was not sent
\* the challenge of the current generation, whatever was renewed, revoked or
\* migrated between the send and the confirmation (store.py:224-249).  The
\* histories begin with the server: what the first file holds active is of the
\* old format, and is not used before it is migrated.
THEOREM ActiveStaysProved ==
  ASSUME FirstFileUnproved
  PROVE  Spec => []ActiveIsProved
<1>1. Init => SecretsSent /\ ActiveIsProved
  BY FirstFileUnproved DEF Init, SecretsSent, ActiveIsProved, FirstFileUnproved
<1>2. HistoryInv /\ SecretsSent /\ ActiveIsProved /\ [Next]_vars
        => SecretsSent' /\ ActiveIsProved'
  BY SecretsStep, ProofStep DEF HistoryInv, PushInv
<1> QED  BY <1>1, <1>2, HistoryInvariant, PTL DEF Spec

-----------------------------------------------------------------------------
(* What is on the wire *)

\* Nothing is on the wire, or the hint of one queued row.
LEMMA WireIdle ==
  ASSUME ~ Locked
  PROVE  OnTheWire = {}
BY DEF Locked, OnTheWire

LEMMA WireBusy ==
  ASSUME PushInv, Sound(db), NEW r \in Runtime, rt[r].pc = "sending",
         NEW j \in LeasedRow(r)
  PROVE  OnTheWire = {[installation |-> j.installation, generation |-> j.generation]}
<1>1. \A q \in Runtime : rt[q].pc = "sending" => q = r
  BY DEF PushInv, OneSender
<1>2. \A k \in LeasedRow(r) : k = j
  BY DEF LeasedRow, Sound, HintsKeyed
<1> QED  BY <1>1, <1>2 DEF OnTheWire

LEMMA SenderHasRow ==
  ASSUME PushInv, NEW r \in Runtime, rt[r].pc = "sending"
  PROVE  \E j \in LeasedRow(r) : TRUE
BY DEF PushInv, SendIsCurrent

\* The registrations change only while nothing is on the wire, or by its outcome.
LEMMA WritersWait ==
  ASSUME TypedInv, Sound(db), [Next]_vars, Locked,
         ~ \E r \in Runtime : FinishSend(r)
  PROVE  db' = db
<1> USE DEF storeVars, operatorVars, apiVars, historyVars
<1>1. CASE ApiStep
  BY <1>1 DEF ApiStep, OpenStore, SubmitPut, CommitPut, SubmitConfirm,
              CommitConfirm, AbandonPut, AbandonConfirm, RevokeRegistration
<1>2. CASE ObserverStep
  BY <1>2 DEF ObserverStep, HookBegin, HookSkip, HookRun, HookCapture, HookPeek,
              HookWrite, HookBusy, HookQueue, HookFail
<1>3. CASE WorkerStep
  BY <1>3 DEF WorkerStep, WorkerRun, Start, Stop, Exit,
            BeginPass, DrainPeek, DrainStore, DrainRemove, CheckInbox, ClaimJob,
            LostLease, DropUnpermitted, BeginSend, WorkerBusy, Crash
<1>4. CASE OperatorStep \/ Tick \/ UNCHANGED vars
  BY <1>4 DEF OperatorStep, ChangePolicy, ChangeDurable, Tick, vars
<1> QED  BY <1>1, <1>2, <1>3, <1>4 DEF Next

\* Whoever sends after a step sent before it, the same row, or begins to.
LEMMA SendersStay ==
  ASSUME TypedInv, [Next]_vars, NEW q \in Runtime, rt'[q].pc = "sending"
  PROVE  \/ rt[q].pc = "sending" /\ rt'[q].job = rt[q].job
         \/ BeginSend(q)
<1>1. rt \in [Runtime -> Worker]
  BY DEF TypedInv, TypeOK
<1>2. ASSUME NEW r \in Runtime, NEW w, Goto(r, w), w.pc # "sending"
      PROVE  rt[q].pc = "sending" /\ rt'[q].job = rt[q].job
  BY <1>1, <1>2 DEF Goto
<1>3. ASSUME NEW r \in Runtime, Claims(r)
      PROVE  rt[q].pc = "sending" /\ rt'[q].job = rt[q].job
  <2>1. \A n : [rt[r] EXCEPT !.pc = "leased", !.job = n].pc = "leased"
    BY <1>1 DEF Worker
  <2> QED  BY <1>2, <1>3, <2>1 DEF Claims
<1>4. ASSUME NEW r \in Runtime, SendAccepted(r)
      PROVE  rt[q].pc = "sending" /\ rt'[q].job = rt[q].job
  <2>1. Idle(r).pc = "idle"
    BY DEF Idle, DownWorker
  <2> QED  BY <1>2, <1>4, <2>1 DEF SendAccepted
<1>5. ASSUME NEW r \in Runtime, BeginSend(r)
      PROVE  BeginSend(q) \/ (rt[q].pc = "sending" /\ rt'[q].job = rt[q].job)
  BY <1>1, <1>5 DEF BeginSend, Goto
<1> QED  BY <1>3, <1>4, <1>5, CalmSteps DEF Calm

LEMMA FinishUnlocks ==
  ASSUME TypedInv, OneSender, NEW r \in Runtime, FinishSend(r)
  PROVE  ~ Locked'
<1>1. rt \in [Runtime -> Worker]
  BY DEF TypedInv, TypeOK
<1>2. rt[r].pc = "sending" /\ Goto(r, Idle(r))
  BY DEF FinishSend, SendAccepted, SendRejected, SendGone, SendFailed
<1>3. \A q \in Runtime \ {r} : rt[q].pc # "sending"
  BY <1>2 DEF OneSender
<1>4. Idle(r).pc = "idle"
  BY DEF Idle, DownWorker
<1> QED  BY <1>1, <1>2, <1>3, <1>4 DEF Goto, Locked

-----------------------------------------------------------------------------
(* The abstract state *)

Statuses(rows) == [i \in Installation |-> rows[i].status]

GenerationsOf(rows) == [i \in Installation |-> rows[i].generation]

Hit(W, i, generation) ==
  \E w \in W : /\ w.kind = "challenge"
              /\ w.installation = i
              /\ w.generation = generation

Reached(W, rows) == [i \in Installation |-> Hit(W, i, rows[i].generation)]

\* An authority that is new was reached by nothing.
LEMMA NewlyReached ==
  ASSUME NEW i \in Installation, NEW generation,
         generation = db.reg[i].generation + 1,
         SendsKnown(db, wire), db.reg \in [Installation -> Row]
  PROVE  ~ Hit(wire, i, generation)
<1> SUFFICES ASSUME NEW w \in wire, w.installation = i, w.generation = generation
             PROVE  FALSE
  BY DEF Hit
<1>1. w.generation <= db.reg[i].generation /\ db.reg[i].generation \in Nat
  BY DEF SendsKnown, Row
<1> QED  BY <1>1

LEMMA SoonReached ==
  ASSUME NEW k \in Installation, NEW x, NEW rows,
         x.installation = k, x.generation = rows[k].generation,
         x.kind = "challenge" <=> rows[k].status = "pending"
  PROVE  Reached(wire \cup {x}, rows) =
           [Reached(wire, rows) EXCEPT ![k] = @ \/ rows[k].status = "pending"]
<1>1. \A i \in Installation :
        Reached(wire \cup {x}, rows)[i] =
          IF i = k THEN Reached(wire, rows)[k] \/ rows[k].status = "pending"
                   ELSE Reached(wire, rows)[i]
  BY DEF Reached, Hit
<1> QED  BY <1>1 DEF Reached

\* What the lifecycle sees of a new authority of registration k.
NewlyHas(k, s, old, new, W) ==
  /\ Statuses(new) = [Statuses(old) EXCEPT ![k] = s]
  /\ GenerationsOf(new) = [GenerationsOf(old) EXCEPT ![k] = @ + 1]
  /\ Reached(W, new) = [Reached(W, old) EXCEPT ![k] = FALSE]

LEMMA NewRow ==
  ASSUME NEW k \in Installation, NEW rows, SendsKnown(db, wire),
         db.reg \in [Installation -> Row], rows = [db.reg EXCEPT ![k] = rows[k]],
         rows[k].generation = db.reg[k].generation + 1
  PROVE  NewlyHas(k, rows[k].status, db.reg, rows, wire)
<1>1. \A i \in Installation \ {k} : rows[i] = db.reg[i]
  OBVIOUS
<1>2. Statuses(rows) = [Statuses(db.reg) EXCEPT ![k] = rows[k].status]
  BY <1>1 DEF Statuses
<1>3. GenerationsOf(rows) = [GenerationsOf(db.reg) EXCEPT ![k] = @ + 1]
  BY <1>1 DEF GenerationsOf
<1>4. ~ Hit(wire, k, rows[k].generation)
  BY NewlyReached
<1>5. Reached(wire, rows) = [Reached(wire, db.reg) EXCEPT ![k] = FALSE]
  <2>1. \A i \in Installation :
          Reached(wire, rows)[i] = IF i = k THEN FALSE ELSE Reached(wire, db.reg)[i]
    BY <1>1, <1>4 DEF Reached, Hit
  <2> QED  BY <2>1 DEF Reached
<1> QED  BY <1>2, <1>3, <1>5 DEF NewlyHas

LEMMA RenewedAbstract ==
  ASSUME HistoryInv, NEW k \in Installation, Renewed(k)
  PROVE  /\ db.reg[k].status # "revoked"
         /\ NewlyHas(k, "pending", db.reg, db'.reg, wire)
<1>1. db.reg \in [Installation -> Row] /\ SendsKnown(db, wire)
  BY DEF HistoryInv, PushInv, TypedInv, Consistent, DB, Recorded
<1>2. PICK p \in Principal, body \in Body :
        /\ PutAllowed(db, p, k, body)
        /\ db'.reg = [db.reg EXCEPT ![k] = PendingRow(db, p, k, body, now)]
  BY DEF Renewed
<1> DEFINE new == PendingRow(db, p, k, body, now)
<1>3. new.status = "pending" /\ new.generation = db.reg[k].generation + 1
  BY DEF PendingRow
<1>4. db.reg[k].status # "revoked"
  BY <1>2 DEF PutAllowed, Exists
<1> HIDE DEF new
<1>5. db'.reg[k] = new /\ db'.reg = [db.reg EXCEPT ![k] = db'.reg[k]]
  BY <1>1, <1>2 DEF new
<1>6. db'.reg[k].status = "pending" /\ db'.reg[k].generation = db.reg[k].generation + 1
  BY <1>3, <1>5
<1> QED  BY <1>1, <1>4, <1>5, <1>6, NewRow

LEMMA RevokedAbstract ==
  ASSUME HistoryInv, NEW k \in Installation, Revoked(k)
  PROVE  /\ db.reg[k].status # "revoked"
         /\ NewlyHas(k, "revoked", db.reg, db'.reg, wire)
<1>1. db.reg \in [Installation -> Row] /\ SendsKnown(db, wire)
  BY DEF HistoryInv, PushInv, TypedInv, Consistent, DB, Recorded
<1> QED  BY <1>1, NewRow DEF Revoked

LEMMA ConfirmedAbstract ==
  ASSUME HistoryInv, SecretsSent, NEW k \in Installation, Confirmed(k)
  PROVE  /\ Statuses(db.reg)[k] = "pending"
         /\ Reached(wire, db.reg)[k]
         /\ Statuses(db'.reg) = [Statuses(db.reg) EXCEPT ![k] = "active"]
         /\ GenerationsOf(db'.reg) = GenerationsOf(db.reg)
         /\ Reached(wire, db'.reg) = Reached(wire, db.reg)
<1>1. db.reg \in [Installation -> Row]
  BY DEF HistoryInv, PushInv, TypedInv, Consistent, DB
<1> DEFINE new == [db.reg[k] EXCEPT !.status = "active", !.challenge = 0]
<1>2. new.status = "active" /\ new.generation = db.reg[k].generation
  BY <1>1 DEF Row
<1>3. db'.reg = [db.reg EXCEPT ![k] = new] /\ db.reg[k].status = "pending"
  BY DEF Confirmed
<1> HIDE DEF new
<1>4. Reached(wire, db.reg)[k]
  BY ConfirmedWasSent DEF Reached, Hit
<1>5. \A i \in Installation : db'.reg[i].generation = db.reg[i].generation
  BY <1>1, <1>2, <1>3
<1>6. Statuses(db'.reg) = [Statuses(db.reg) EXCEPT ![k] = "active"]
  BY <1>1, <1>2, <1>3 DEF Statuses
<1>7. GenerationsOf(db'.reg) = GenerationsOf(db.reg)
  BY <1>5 DEF GenerationsOf
<1>8. Reached(wire, db'.reg) = Reached(wire, db.reg)
  BY <1>5 DEF Reached
<1> QED  BY <1>3, <1>4, <1>6, <1>7, <1>8 DEF Statuses

LEMMA UpgradedAbstract ==
  ASSUME HistoryInv, Upgraded
  PROVE  LET I == {i \in Installation : Legacy(db, i)}
         IN  /\ \A i \in I : Statuses(db.reg)[i] \in {"pending", "active"}
             /\ Statuses(db'.reg) =
                  [i \in Installation |->
                     IF i \in I THEN "upgrade_required" ELSE Statuses(db.reg)[i]]
             /\ GenerationsOf(db'.reg) =
                  [i \in Installation |->
                     IF i \in I THEN GenerationsOf(db.reg)[i] + 1
                                ELSE GenerationsOf(db.reg)[i]]
             /\ Reached(wire, db'.reg) =
                  [i \in Installation |->
                     IF i \in I THEN FALSE ELSE Reached(wire, db.reg)[i]]
<1> DEFINE I == {i \in Installation : Legacy(db, i)}
<1>1. db.reg \in [Installation -> Row] /\ SendsKnown(db, wire)
  BY DEF HistoryInv, PushInv, TypedInv, Consistent, DB, Recorded
<1>2. \A i \in Installation :
        /\ MigratedRow(db.reg[i]).status = "upgrade_required"
        /\ MigratedRow(db.reg[i]).generation = db.reg[i].generation + 1
  BY <1>1 DEF MigratedRow, Row
<1>3. \A i \in Installation :
        db'.reg[i] = IF i \in I THEN MigratedRow(db.reg[i]) ELSE db.reg[i]
  BY DEF Upgraded
<1>4. \A i \in I : db.reg[i].status \in {"pending", "active"}
  BY DEF Legacy
<1> HIDE DEF I
<1>5. I \subseteq Installation
  BY DEF I
<1>6. Reached(wire, db'.reg) =
        [i \in Installation |-> IF i \in I THEN FALSE ELSE Reached(wire, db.reg)[i]]
  <2>1. \A i \in I : ~ Hit(wire, i, db'.reg[i].generation)
    BY <1>1, <1>2, <1>3, <1>5, NewlyReached
  <2>2. \A i \in Installation \ I : db'.reg[i].generation = db.reg[i].generation
    BY <1>3
  <2>3. \A i \in Installation : Reached(wire, db'.reg)[i] =
          IF i \in I THEN FALSE ELSE Reached(wire, db.reg)[i]
    BY <2>1, <2>2 DEF Reached, Hit
  <2> QED  BY <2>3 DEF Reached
<1>7. Statuses(db'.reg) =
        [i \in Installation |->
           IF i \in I THEN "upgrade_required" ELSE Statuses(db.reg)[i]]
  BY <1>2, <1>3 DEF Statuses
<1>8. GenerationsOf(db'.reg) =
        [i \in Installation |-> IF i \in I THEN GenerationsOf(db.reg)[i] + 1
                                           ELSE GenerationsOf(db.reg)[i]]
  BY <1>2, <1>3 DEF GenerationsOf
<1>9. \A i \in I : Statuses(db.reg)[i] \in {"pending", "active"}
  BY <1>4, <1>5 DEF Statuses
<1> QED  BY <1>6, <1>7, <1>8, <1>9 DEF I

-----------------------------------------------------------------------------
(* The server implements its lifecycle *)

Flying(j) == {[installation |-> j.installation, generation |-> j.generation]}

\* A step that changes the registrations while nothing is on the wire.
LEMMA RowsImplement ==
  ASSUME HistoryInv, SecretsSent, Authorizes, wire' = wire,
         OnTheWire = {}, OnTheWire' = {}
  PROVE  [Lifecycle!Next]_(Lifecycle!lifecycleVars)
<1>1. ASSUME NEW k \in Installation, Renewed(k)
      PROVE  Lifecycle!Propose(k)
  <2>1. db.reg[k].status # "revoked" /\ NewlyHas(k, "pending", db.reg, db'.reg, wire)
    BY <1>1, RenewedAbstract
  <2> QED  BY <2>1 DEF Lifecycle!Propose, Lifecycle!NewAuthority, NewlyHas, Statuses,
                       GenerationsOf, Reached, Hit, Challenged
<1>2. ASSUME NEW k \in Installation, Revoked(k)
      PROVE  Lifecycle!End(k)
  <2>1. db.reg[k].status # "revoked" /\ NewlyHas(k, "revoked", db.reg, db'.reg, wire)
    BY <1>2, RevokedAbstract
  <2> QED  BY <2>1 DEF Lifecycle!End, Lifecycle!NewAuthority, NewlyHas, Statuses,
                       GenerationsOf, Reached, Hit, Challenged
<1>3. ASSUME NEW k \in Installation, Confirmed(k)
      PROVE  Lifecycle!Activate(k)
  BY <1>3, ConfirmedAbstract
     DEF Lifecycle!Activate, Statuses, GenerationsOf, Reached, Hit, Challenged
<1>4. ASSUME Upgraded
      PROVE  \/ \E I \in SUBSET Installation : Lifecycle!Upgrade(I)
             \/ UNCHANGED Lifecycle!lifecycleVars
  <2> DEFINE I == {i \in Installation : Legacy(db, i)}
  <2>1. /\ \A i \in I : Statuses(db.reg)[i] \in {"pending", "active"}
        /\ Statuses(db'.reg) =
             [i \in Installation |->
                IF i \in I THEN "upgrade_required" ELSE Statuses(db.reg)[i]]
        /\ GenerationsOf(db'.reg) =
             [i \in Installation |->
                IF i \in I THEN GenerationsOf(db.reg)[i] + 1
                           ELSE GenerationsOf(db.reg)[i]]
        /\ Reached(wire, db'.reg) =
             [i \in Installation |->
                IF i \in I THEN FALSE ELSE Reached(wire, db.reg)[i]]
    BY <1>4, UpgradedAbstract
  <2> HIDE DEF I
  <2>2. CASE I = {}
    <3>1. /\ Statuses(db'.reg) = Statuses(db.reg)
          /\ GenerationsOf(db'.reg) = GenerationsOf(db.reg)
          /\ Reached(wire, db'.reg) = Reached(wire, db.reg)
      BY <2>1, <2>2 DEF Statuses, GenerationsOf, Reached, Hit
    <3> QED  BY <3>1 DEF Lifecycle!lifecycleVars, Statuses, GenerationsOf, Reached,
                         Hit, Challenged
  <2>3. CASE I # {}
    <3>1. PICK J : J = I
      OBVIOUS
    <3>2. J \in SUBSET Installation
      BY <3>1 DEF I
    <3>3. Lifecycle!Upgrade(J)
      BY <2>1, <2>3, <3>1
         DEF Lifecycle!Upgrade, Statuses, GenerationsOf, Reached, Hit, Challenged
    <3> QED  BY <3>2, <3>3
  <2> QED  BY <2>2, <2>3
<1>5. ASSUME RowsStay
      PROVE  UNCHANGED Lifecycle!lifecycleVars
  BY <1>5 DEF RowsStay, Lifecycle!lifecycleVars, Challenged
<1> QED  BY <1>1, <1>2, <1>3, <1>4, <1>5 DEF Authorizes, Lifecycle!Next

\* A send begins: the hint leaves for the current generation, and reaches it if
\* it is a challenge.
LEMMA SendImplements ==
  ASSUME HistoryInv, PushInv', NEW r \in Runtime, BeginSend(r)
  PROVE  \E k \in Installation : Lifecycle!Send(k)
<1>1. PICK j \in LeasedRow(r) : wire' = wire \cup {SentBy(j)}
  BY SendFacts
<1>2. /\ PushInv /\ TypedInv /\ Sound(db) /\ Consistent(db) /\ ~ Locked
      /\ rt \in [Runtime -> Worker] /\ db' = db
  BY DEF HistoryInv, PushInv, TypedInv, TypeOK, BeginSend
<1>3. j \in db.outbox /\ ~ j.done
  BY <1>1 DEF LeasedRow
<1> DEFINE k == j.installation
<1>4. /\ k \in Installation /\ j.generation = db.reg[k].generation
      /\ db.reg[k].status \in {"pending", "active"} /\ HintFits(db.reg[k], j.hint)
  BY <1>2, <1>3, QueuedAuthority DEF Consistent, QueueCurrent
<1>5. j.hint = "challenge" <=> db.reg[k].status = "pending"
  <2>1. j.hint # ""
    BY <1>2, <1>3 DEF Sound, HintsClose
  <2> QED  BY <1>4, <2>1 DEF HintFits, HookKinds, TurnKinds, InputKinds
<1>6. OnTheWire = {}
  BY <1>2, WireIdle
<1>7. OnTheWire' = Flying(j)
  <2>1. /\ rt'[r].pc = "sending" /\ rt'[r].job = rt[r].job
        /\ \A q \in Runtime \ {r} : rt'[q] = rt[q]
    BY <1>2 DEF BeginSend, Goto, Worker
  <2>2. \A q \in Runtime : rt'[q].pc = "sending" <=> q = r
    BY <1>2, <2>1 DEF Locked
  <2>3. LeasedRow(r)' = LeasedRow(r)
    BY <1>2, <2>1 DEF LeasedRow
  <2>4. LeasedRow(r) = {j}
    BY <1>1, <1>2 DEF LeasedRow, Sound, HintsKeyed
  <2> QED  BY <2>2, <2>3, <2>4 DEF OnTheWire, Flying, LeasedRow
<1> DEFINE x == SentBy(j)
<1>8. x.installation = k /\ x.generation = j.generation /\ x.kind = j.hint
  BY DEF SentBy
<1> HIDE DEF x, k
<1>9. Reached(wire \cup {x}, db.reg) =
        [Reached(wire, db.reg) EXCEPT ![k] = @ \/ db.reg[k].status = "pending"]
  BY <1>4, <1>5, <1>8, SoonReached
<1>10. Lifecycle!Send(k)
  <2>1. wire' = wire \cup {x} /\ OnTheWire' = {[installation |-> k,
                                               generation |-> db.reg[k].generation]}
    BY <1>1, <1>4, <1>7 DEF Flying, x, k
  <2>2. Reached(wire', db'.reg) =
          [Reached(wire, db.reg) EXCEPT ![k] = @ \/ db.reg[k].status = "pending"]
    BY <1>2, <1>9, <2>1
  <2>3. /\ Statuses(db.reg)[k] = db.reg[k].status
        /\ GenerationsOf(db.reg)[k] = db.reg[k].generation
        /\ Statuses(db'.reg) = Statuses(db.reg)
        /\ GenerationsOf(db'.reg) = GenerationsOf(db.reg)
    BY <1>2, <1>4 DEF Statuses, GenerationsOf
  <2>4. Statuses(db.reg)[k] \in {"pending", "active"}
    BY <1>4, <2>3
  <2>5. OnTheWire' = {[installation |-> k, generation |-> GenerationsOf(db.reg)[k]]}
    BY <2>1, <2>3
  <2>6. Reached(wire', db'.reg) =
          [Reached(wire, db.reg) EXCEPT ![k] = @ \/ Statuses(db.reg)[k] = "pending"]
    BY <2>2, <2>3
  <2> QED  BY <1>6, <2>3, <2>4, <2>5, <2>6
           DEF Lifecycle!Send, Statuses, GenerationsOf, Reached, Hit, Challenged
<1> QED  BY <1>4, <1>10

\* A send ends: the hint lands, or the push service ends the registration.
LEMMA FinishImplements ==
  ASSUME HistoryInv, NEW r \in Runtime, FinishSend(r)
  PROVE  Lifecycle!Land \/ \E k \in Installation : Lifecycle!Gone(k)
<1>1. /\ PushInv /\ TypedInv /\ Sound(db) /\ Consistent(db) /\ OneSender
  BY DEF HistoryInv, PushInv, TypedInv
<1>2. rt[r].pc = "sending" /\ wire' = wire
  BY DEF FinishSend, SendAccepted, SendRejected, SendGone, SendFailed
<1>3. OnTheWire' = {}
  <2>1. ~ Locked'
    BY <1>1, FinishUnlocks
  <2> QED  BY <2>1 DEF OnTheWire, Locked
<1>4. PICK j \in LeasedRow(r) :
        db' \in {SettleJob(db, j), RevokeIn(db, j.installation), RetryJob(db, j, now)}
  BY DEF FinishSend, SendAccepted, SendRejected, SendGone, SendFailed
<1>5. j \in db.outbox
  BY DEF LeasedRow
<1>6. OnTheWire = Flying(j)
  BY <1>1, <1>2, WireBusy DEF Flying
<1>7. CASE db' \in {SettleJob(db, j), RetryJob(db, j, now)}
  <2>1. Moves(db, db')
    BY <1>1, <1>5, <1>7, SettleJobMoves, RetryJobMoves
  <2>2. db'.reg = db.reg
    BY <2>1 DEF Moves
  <2>3. OnTheWire # {}
    BY <1>6 DEF Flying
  <2>4. Lifecycle!Land
    BY <1>2, <1>3, <2>2, <2>3 DEF Lifecycle!Land, Challenged
  <2> QED  BY <2>4
<1>8. CASE db' = RevokeIn(db, j.installation)
  <2>1. PICK k : k = j.installation
    OBVIOUS
  <2>2. /\ k \in Installation /\ j.generation = db.reg[k].generation
        /\ db.reg[k].status \in {"pending", "active"}
    BY <1>1, <1>5, <2>1, QueuedAuthority
  <2>3. Revoked(k)
    BY <1>1, <1>8, <2>1, <2>2, RevokeInRows
  <2>4. NewlyHas(k, "revoked", db.reg, db'.reg, wire)
    BY <2>2, <2>3, RevokedAbstract
  <2>5. OnTheWire = {[installation |-> k, generation |-> GenerationsOf(db.reg)[k]]}
    BY <1>6, <2>1, <2>2 DEF Flying, GenerationsOf
  <2>6. \E f \in OnTheWire : /\ f.installation = k
                             /\ f.generation = GenerationsOf(db.reg)[k]
    BY <2>5
  <2>7. Lifecycle!Gone(k)
    BY <1>2, <1>3, <2>4, <2>6
       DEF Lifecycle!Gone, NewlyHas, Statuses, GenerationsOf, Reached, Hit, Challenged
  <2> QED  BY <2>2, <2>7
<1> QED  BY <1>4, <1>7, <1>8

\* While a hint is on the wire nothing else happens to the registrations: it
\* stays there, or nobody is left to hear the answer.
LEMMA WaitImplements ==
  ASSUME HistoryInv, [Next]_vars, Locked, db' = db, wire' = wire
  PROVE  Lifecycle!Land \/ UNCHANGED Lifecycle!lifecycleVars
<1>1. /\ PushInv /\ TypedInv /\ Sound(db) /\ OneSender
  BY DEF HistoryInv, PushInv
<1>2. PICK r \in Runtime : rt[r].pc = "sending"
  BY DEF Locked
<1>3. PICK j \in LeasedRow(r) : TRUE
  BY <1>1, <1>2, SenderHasRow
<1>4. OnTheWire = Flying(j)
  BY <1>1, <1>2, <1>3, WireBusy DEF Flying
<1>5. \A q \in Runtime : rt'[q].pc = "sending" =>
        q = r /\ rt'[q].job = rt[q].job
  <2>1. \A q \in Runtime : rt'[q].pc = "sending" =>
          rt[q].pc = "sending" /\ rt'[q].job = rt[q].job
    BY <1>1, SendersStay DEF BeginSend
  <2> QED  BY <1>1, <1>2, <2>1 DEF OneSender
<1>6. CASE rt'[r].pc = "sending"
  <2>1. LeasedRow(r)' = LeasedRow(r)
    BY <1>5, <1>6 DEF LeasedRow
  <2>2. LeasedRow(r) = {j}
    BY <1>1, <1>3 DEF LeasedRow, Sound, HintsKeyed
  <2>3. OnTheWire' = Flying(j)
    BY <1>5, <1>6, <2>1, <2>2 DEF OnTheWire, Flying, LeasedRow
  <2> QED  BY <1>4, <2>3 DEF Lifecycle!lifecycleVars, Challenged
<1>7. CASE rt'[r].pc # "sending"
  <2>1. OnTheWire' = {}
    BY <1>5, <1>7 DEF OnTheWire
  <2>2. OnTheWire # {}
    BY <1>4 DEF Flying
  <2>3. Lifecycle!Land
    BY <2>1, <2>2 DEF Lifecycle!Land, Challenged
  <2> QED  BY <2>3
<1> QED  BY <1>6, <1>7

LEMMA LifecycleStep ==
  ASSUME HistoryInv, SecretsSent, [Next]_vars
  PROVE  [Lifecycle!Next]_(Lifecycle!lifecycleVars)
<1>1. PushInv' /\ TypedInv /\ Sound(db) /\ OneSender
  BY InvariantStep DEF HistoryInv, PushInv
<1>2. CASE \E r \in Runtime : BeginSend(r)
  BY <1>1, <1>2, SendImplements DEF Lifecycle!Next
<1>3. CASE \E r \in Runtime : FinishSend(r)
  BY <1>3, FinishImplements DEF Lifecycle!Next
<1>4. CASE ~ \E r \in Runtime : BeginSend(r) \/ FinishSend(r)
  <2>1. wire' = wire
    BY <1>1, <1>4, CalmSteps DEF Calm, Claims, SendAccepted
  <2>2. CASE Locked
    <3>1. db' = db
      BY <1>1, <1>4, <2>2, WritersWait
    <3> QED  BY <2>1, <2>2, <3>1, WaitImplements DEF Lifecycle!Next
  <2>3. CASE ~ Locked
    <3>1. Authorizes
      BY <1>1, StoreWrites, StepsAuthorize
    <3>2. OnTheWire = {}
      BY <2>3, WireIdle
    <3>3. \A q \in Runtime : rt'[q].pc # "sending"
      BY <1>1, <1>4, <2>3, SendersStay DEF Locked
    <3>4. OnTheWire' = {}
      BY <3>3 DEF OnTheWire
    <3> QED  BY <2>1, <3>1, <3>2, <3>4, RowsImplement
  <2> QED  BY <2>2, <2>3
<1> QED  BY <1>2, <1>3, <1>4

\* The whole server is an implementation of the lifecycle it promises: to prove
\* the endpoint first, to end authority for ever, to change it only while no
\* hint is on the wire, whichever processes serve it and however they die.
THEOREM ServerImplementsLifecycle == Spec => ImplementsLifecycle
<1>1. Init => Lifecycle!Init /\ SecretsSent
  <2> SUFFICES ASSUME Init
               PROVE  Lifecycle!Init /\ SecretsSent
    OBVIOUS
  <2>1. db.reg \in [Installation -> Row]
    BY StateAssumption DEF Init, Consistent, DB
  <2>2. OnTheWire = {}
    BY DEF Init, OnTheWire, DownWorker
  <2>3. [i \in Installation |-> Challenged(i)] = [i \in Installation |-> FALSE]
    BY DEF Init, Challenged
  <2>4. /\ Statuses(db.reg) \in [Installation -> Status]
        /\ GenerationsOf(db.reg) \in [Installation -> Nat]
    BY <2>1 DEF Statuses, GenerationsOf, Row
  <2>5. Lifecycle!Init
    BY <2>2, <2>3, <2>4 DEF Lifecycle!Init, Statuses, GenerationsOf, Status
  <2>6. SecretsSent
    BY DEF Init, SecretsSent
  <2> QED  BY <2>5, <2>6
<1>2. HistoryInv /\ SecretsSent /\ [Next]_vars => SecretsSent'
  BY SecretsStep DEF HistoryInv, PushInv
<1>3. HistoryInv /\ SecretsSent /\ [Next]_vars
        => [Lifecycle!Next]_(Lifecycle!lifecycleVars)
  BY LifecycleStep
<1> QED  BY <1>1, <1>2, <1>3, HistoryInvariant, PTL
         DEF Spec, ImplementsLifecycle, Lifecycle!Spec

=============================================================================
