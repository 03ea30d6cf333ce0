-------------------------- MODULE PushStoreProofs ---------------------------
(***************************************************************************)
(* What every transaction of the store keeps.  First: a consistent         *)
(* database stays consistent: its tables keep their types, the queue of an *)
(* installation stays at its current generation and status, and a live     *)
(* registration keeps an endpoint.  Then: its tables stay sound: the keys  *)
(* of the schema hold, a challenge belongs to one pending registration,    *)
(* and a request that is resolved is not announced.  For this the          *)
(* transactions are grouped by what they do to the tables: cut and cancel  *)
(* rows (Trims), end authorities (Ends), update hints (Moves), or add a    *)
(* row.                                                                    *)
(***************************************************************************)
EXTENDS PushStore, FiniteSetTheorems, TLAPS

-----------------------------------------------------------------------------
(* Helpers *)

\* The next rowid of a table is a number.
LEMMA TopNat ==
  ASSUME NEW S \in SUBSET Nat
  PROVE  Top(S) \in Nat
BY DEF Top

\* What is cut from a table leaves rows of the table.
LEMMA PruneConsistent ==
  ASSUME NEW d, Consistent(d), NEW now \in Nat
  PROVE  Consistent(Prune(d, now)) /\ Prune(d, now).reg = d.reg
<1> DEFINE e == Prune(d, now)
<1>1. /\ e.reg = d.reg /\ e.nonces = d.nonces /\ e.cursor = d.cursor
      /\ e.events \subseteq d.events /\ e.outbox \subseteq d.outbox
      /\ e.attention \subseteq d.attention
  BY DEF Prune, Consistent, DB, NewestEvents, NewestAttention
<1>2. e \in DB
  BY DEF Prune, Consistent, DB, NewestEvents, NewestAttention
<1> QED  BY <1>1, <1>2 DEF Consistent, QueueCurrent, LiveRowsBound

LEMMA DropHintsConsistent ==
  ASSUME NEW d, Consistent(d), NEW i \in Installation
  PROVE  /\ Consistent(DropHints(d, i))
         /\ DropHints(d, i).reg = d.reg
         /\ \A j \in DropHints(d, i).outbox : j.installation # i
BY DEF DropHints, Consistent, QueueCurrent, LiveRowsBound, DB

LEMMA CancelType ==
  ASSUME NEW E \in SUBSET Event, NEW C \in SUBSET E
  PROVE  Cancel(E, C) \in SUBSET Event
BY ZenonT(40) DEF Cancel, Event

LEMMA CancelChallengesConsistent ==
  ASSUME NEW d, Consistent(d), NEW i \in Installation
  PROVE  /\ Consistent(CancelChallenges(d, i))
         /\ CancelChallenges(d, i).reg = d.reg
         /\ CancelChallenges(d, i).outbox = d.outbox
         /\ CancelChallenges(d, i).cursor = d.cursor
<1>1. Cancel(d.events, Challenges(d, i)) \in SUBSET Event
  BY CancelType DEF Consistent, DB, Challenges
<1> QED  BY <1>1 DEF CancelChallenges, Consistent, QueueCurrent, LiveRowsBound, DB

LEMMA CancelAttentionConsistent ==
  ASSUME NEW d, Consistent(d), NEW s, NEW refs
  PROVE  /\ Consistent(CancelAttention(d, s, refs))
         /\ CancelAttention(d, s, refs).reg = d.reg
<1> DEFINE inputs == {e \in d.events : /\ e.kind = "input"
                                       /\ e.session = s
                                       /\ e.ref \in refs}
           events == Cancel(d.events, inputs)
           kept == {j \in d.outbox : ~ \E e \in events :
                                        e.cursor = j.event /\ e.cancelled}
<1>1. events \in SUBSET Event
  <2>1. d.events \in SUBSET Event /\ inputs \in SUBSET d.events
    BY DEF Consistent, DB
  <2> QED  BY <2>1, CancelType
<1>2. kept \subseteq d.outbox
  OBVIOUS
<1>3. CancelAttention(d, s, refs) = [d EXCEPT !.events = events, !.outbox = kept]
  BY DEF CancelAttention
<1> HIDE DEF events, kept
<1> QED  BY <1>1, <1>2, <1>3 DEF Consistent, QueueCurrent, LiveRowsBound, DB

-----------------------------------------------------------------------------
(* Registration *)

\* What Store.put has written before it prunes.
Proposed(d, p, i, body, now) ==
  LET row == PendingRow(d, p, i, body, now)
      e   == CancelChallenges(DropHints(d, i), i)
      hint == NewJob(Top(JobIds(e)) + 1, d.cursor + 1, i, row.generation,
                     "challenge", now)
  IN  [e EXCEPT !.reg = [@ EXCEPT ![i] = row],
                !.nonces = @ \cup {<<i, body.nonce>>},
                !.events = @ \cup {ChallengeEvent(d, p, i, now)},
                !.cursor = @ + 1,
                !.outbox = @ \cup {hint}]

\* Renewing or creating a registration.
LEMMA ProposedConsistent ==
  ASSUME NEW d, Consistent(d), NEW p \in Principal, NEW i \in Installation,
         NEW body \in Body, NEW now \in Nat
  PROVE  Consistent(Proposed(d, p, i, body, now))
<1> DEFINE row == PendingRow(d, p, i, body, now)
           e == CancelChallenges(DropHints(d, i), i)
           hint == NewJob(Top(JobIds(e)) + 1, d.cursor + 1, i, row.generation,
                          "challenge", now)
           ev == ChallengeEvent(d, p, i, now)
           f == [e EXCEPT !.reg = [@ EXCEPT ![i] = row],
                          !.nonces = @ \cup {<<i, body.nonce>>},
                          !.events = @ \cup {ev},
                          !.cursor = @ + 1,
                          !.outbox = @ \cup {hint}]
<1>1. /\ Consistent(e) /\ e.reg = d.reg /\ e.cursor = d.cursor
      /\ \A j \in e.outbox : j.installation # i
  <2>1. Consistent(DropHints(d, i)) /\ DropHints(d, i).reg = d.reg
        /\ (\A j \in DropHints(d, i).outbox : j.installation # i)
        /\ DropHints(d, i).cursor = d.cursor
    BY DropHintsConsistent DEF DropHints, Consistent, DB
  <2> QED  BY <2>1, CancelChallengesConsistent
<1>2. row \in Row /\ row.status = "pending" /\ row.endpoint # None
      /\ row.generation = d.reg[i].generation + 1
  <2>1. d.reg[i] \in Row /\ d.cursor \in Nat
    BY DEF Consistent, DB
  <2>2. None \notin Endpoint /\ ChallengeTTL \in Nat
    BY StoreAssumption
  <2> QED  BY <2>1, <2>2 DEF PendingRow, Row, Body, Status
<1>3. ev \in Event
  BY StoreAssumption DEF ChallengeEvent, Event, Consistent, DB
<1>4. Top(JobIds(e)) \in Nat
  <2> HIDE DEF e
  <2>1. e.outbox \in SUBSET Job
    BY <1>1 DEF Consistent, DB
  <2>2. JobIds(e) \in SUBSET Nat
    BY <2>1 DEF JobIds, Job
  <2> QED  BY <2>2, TopNat
<1>5. /\ hint \in Job /\ hint.installation = i
      /\ hint.generation = row.generation /\ hint.hint = "challenge"
  <2>1. row.generation \in Nat /\ d.cursor + 1 \in Nat
    BY <1>2 DEF Consistent, DB, Row
  <2> HIDE DEF row, e
  <2> QED  BY <1>4, <2>1 DEF NewJob, Job
<1> HIDE DEF row, ev, hint, e
<1>6. f \in DB
  <2>1. e \in DB
    BY <1>1 DEF Consistent
  <2>2. <<i, body.nonce>> \in Installation \X Nonce
    BY DEF Body
  <2>3. /\ [e.reg EXCEPT ![i] = row] \in [Installation -> Row]
        /\ e.nonces \cup {<<i, body.nonce>>} \in SUBSET (Installation \X Nonce)
        /\ e.events \cup {ev} \in SUBSET Event
        /\ e.cursor + 1 \in Nat
        /\ e.outbox \cup {hint} \in SUBSET Job
    BY <2>1, <2>2, <1>2, <1>3, <1>5 DEF DB
  <2> QED  BY <2>1, <2>3 DEF DB
<1>7. /\ f.reg = [e.reg EXCEPT ![i] = row]
      /\ f.outbox = e.outbox \cup {hint}
  BY <1>1 DEF Consistent, DB
<1>8. f.reg[i] = row /\ \A k \in Installation \ {i} : f.reg[k] = e.reg[k]
  BY <1>7, <1>1 DEF Consistent, DB
<1>9. QueueCurrent(f)
  <2> SUFFICES ASSUME NEW j \in f.outbox
               PROVE  /\ j.generation = f.reg[j.installation].generation
                      /\ HintFits(f.reg[j.installation], j.hint)
    BY DEF QueueCurrent
  <2>1. CASE j = hint
    BY <2>1, <1>5, <1>8, <1>2 DEF HintFits
  <2>2. CASE j \in e.outbox
    <3>1. j.installation \in Installation \ {i}
      BY <2>2, <1>1 DEF Consistent, DB, Job
    <3> QED  BY <3>1, <2>2, <1>8, <1>1 DEF Consistent, QueueCurrent
  <2> QED  BY <2>1, <2>2, <1>7
<1>10. LiveRowsBound(f)
  BY <1>8, <1>2, <1>1 DEF LiveRowsBound, Consistent
<1>11. Proposed(d, p, i, body, now) = f
  BY DEF Proposed, row, e, hint, ev
<1>12. Consistent(f)
  BY <1>6, <1>9, <1>10 DEF Consistent
<1> QED  BY <1>11, <1>12

LEMMA PutConsistent ==
  ASSUME NEW d, Consistent(d), NEW p \in Principal, NEW i \in Installation,
         NEW body \in Body, NEW now \in Nat
  PROVE  Consistent(Put(d, p, i, body, now))
<1>1. Put(d, p, i, body, now) = Prune(Proposed(d, p, i, body, now), now)
  BY DEF Put, Proposed
<1> QED  BY <1>1, ProposedConsistent, PruneConsistent

\* The two in-place updates of a row.
LEMMA RevokedRow ==
  ASSUME NEW old \in Row
  PROVE  LET row == [old EXCEPT !.generation = @ + 1, !.status = "revoked",
                                !.challenge = 0, !.endpoint = None]
         IN  row \in Row /\ row.status = "revoked"
<1>1. old.generation + 1 \in Nat
  BY DEF Row
<1> DEFINE n == old.generation + 1
<1> HIDE DEF n
<1>2. n \in Nat
  BY <1>1 DEF n
<1>3. LET row == [old EXCEPT !.generation = n, !.status = "revoked",
                             !.challenge = 0, !.endpoint = None]
      IN  row \in Row /\ row.status = "revoked"
  BY <1>2 DEF Row, Status
<1> QED  BY <1>3 DEF n

LEMMA ActiveRow ==
  ASSUME NEW old \in Row
  PROVE  LET row == [old EXCEPT !.status = "active", !.challenge = 0]
         IN  /\ row \in Row /\ row.status = "active"
             /\ row.endpoint = old.endpoint /\ row.generation = old.generation
BY DEF Row, Status

\* Confirming a registration that is pending.
LEMMA ConfirmConsistent ==
  ASSUME NEW d, Consistent(d), NEW i \in Installation, d.reg[i].status = "pending"
  PROVE  Consistent(Confirm(d, i))
<1> DEFINE e == DropHints(d, i)
           c == Confirm(d, i)
<1>1. Consistent(e) /\ e.reg = d.reg /\ \A j \in e.outbox : j.installation # i
  BY DropHintsConsistent
<1> HIDE DEF e
<1>2. c = [e EXCEPT !.reg[i].status = "active", !.reg[i].challenge = 0]
  BY DEF Confirm, e
<1> HIDE DEF c
<1>3. /\ c.reg[i] = [d.reg[i] EXCEPT !.status = "active", !.challenge = 0]
      /\ \A k \in Installation \ {i} : c.reg[k] = d.reg[k]
      /\ c.reg = [d.reg EXCEPT ![i] = c.reg[i]]
      /\ c.outbox = e.outbox
      /\ c = [e EXCEPT !.reg = c.reg]
  BY <1>1, <1>2 DEF Consistent, DB
<1>4. /\ d.reg[i] \in Row /\ c.reg[i] \in Row
      /\ c.reg[i].endpoint = d.reg[i].endpoint
  <2>1. d.reg[i] \in Row
    BY DEF Consistent, DB
  <2> QED  BY <2>1, <1>3, ActiveRow
<1>5. c \in DB
  BY <1>1, <1>3, <1>4 DEF Consistent, DB
<1>6. QueueCurrent(c)
  <2>1. \A j \in e.outbox : j.installation \in Installation \ {i}
    BY <1>1 DEF Consistent, DB, Job
  <2> QED  BY <1>1, <1>3, <2>1 DEF QueueCurrent, Consistent
<1>7. LiveRowsBound(c)
  <2>1. LiveRowsBound(d)
    BY DEF Consistent
  <2>2. d.reg[i].endpoint # None
    BY <2>1 DEF LiveRowsBound
  <2>3. c.reg[i].endpoint # None
    BY <2>2, <1>4
  <2>4. \A k \in Installation \ {i} : c.reg[k] = d.reg[k]
    BY <1>3
  <2> QED  BY <2>1, <2>3, <2>4 DEF LiveRowsBound
<1> QED  BY <1>5, <1>6, <1>7 DEF Consistent, c

\* Revoking whatever is registered.
LEMMA RevokeInConsistent ==
  ASSUME NEW d, Consistent(d), NEW i \in Installation
  PROVE  /\ Consistent(RevokeIn(d, i))
         /\ RevokeIn(d, i).reg[i].status = "revoked"
         /\ RevokeIn(d, i).reg[i] \in Row
<1> DEFINE e == DropHints(d, i)
           row == [d.reg[i] EXCEPT !.generation = @ + 1, !.status = "revoked",
                                   !.challenge = 0, !.endpoint = None]
           f == [e EXCEPT !.reg = [@ EXCEPT ![i] = row]]
<1>1. Consistent(e) /\ e.reg = d.reg /\ \A j \in e.outbox : j.installation # i
  BY DropHintsConsistent
<1>2. row \in Row /\ row.status = "revoked"
  <2>1. d.reg[i] \in Row
    BY DEF Consistent, DB
  <2> QED  BY <2>1, RevokedRow
<1> HIDE DEF e, row
<1>3. /\ f.reg[i] = row
      /\ \A k \in Installation \ {i} : f.reg[k] = d.reg[k]
      /\ f.outbox = e.outbox
      /\ f \in DB
  BY <1>1, <1>2 DEF Consistent, DB
<1>4. QueueCurrent(f)
  <2>1. \A j \in e.outbox : j.installation \in Installation \ {i}
    BY <1>1 DEF Consistent, DB, Job
  <2> QED  BY <1>1, <1>3, <2>1 DEF QueueCurrent, Consistent
<1>5. LiveRowsBound(f)
  BY <1>2, <1>3 DEF LiveRowsBound, Consistent
<1>6. Consistent(f)
  BY <1>3, <1>4, <1>5 DEF Consistent
<1>7. RevokeIn(d, i) = CancelChallenges(f, i)
  BY DEF RevokeIn, e, row
<1> QED  BY <1>2, <1>3, <1>6, <1>7, CancelChallengesConsistent

\* DELETE: a tombstone, a revocation or nothing.
LEMMA RevokeConsistent ==
  ASSUME NEW d, Consistent(d), NEW p \in Principal, NEW i \in Installation
  PROVE  Consistent(Revoke(d, p, i))
<1> DEFINE tomb == [NoRow EXCEPT !.owner = p, !.generation = 1, !.status = "revoked"]
           f == [d EXCEPT !.reg[i] = tomb]
<1>1. CASE Exists(d, i)
  BY <1>1, RevokeInConsistent DEF Revoke
<1>2. CASE ~ Exists(d, i)
  <2>1. tomb \in Row /\ tomb.status = "revoked"
    BY DEF NoRow, Row, Status, Scope
  <2> HIDE DEF tomb
  <2>2. d \in DB /\ d.reg[i].status = "absent"
    BY <1>2 DEF Consistent, Exists
  <2>3. /\ f.reg[i] = tomb
        /\ \A k \in Installation \ {i} : f.reg[k] = d.reg[k]
        /\ f.outbox = d.outbox
        /\ f \in DB
    BY <2>1, <2>2 DEF DB
  <2>4. \A j \in d.outbox : j.installation \in Installation \ {i}
    <3>1. \A j \in d.outbox : j.installation \in Installation
      BY <2>2 DEF DB, Job
    <3> QED  BY <3>1, <2>2 DEF Consistent, QueueCurrent, HintFits
  <2>5. QueueCurrent(f)
    BY <2>3, <2>4 DEF QueueCurrent, Consistent
  <2>6. LiveRowsBound(f)
    BY <2>1, <2>3 DEF LiveRowsBound, Consistent
  <2>7. Revoke(d, p, i) = f
    BY <1>2 DEF Revoke, tomb
  <2> HIDE DEF f
  <2> QED  BY <2>3, <2>5, <2>6, <2>7 DEF Consistent, f
<1> QED  BY <1>1, <1>2

\* Opening a file of an older version.
LEMMA MigrateConsistent ==
  ASSUME NEW d, Consistent(d)
  PROVE  Consistent(Migrate(d))
<1> DEFINE reg == [i \in Installation |->
                     IF Legacy(d, i)
                     THEN [RevokeIn(d, i).reg[i] EXCEPT !.status = "upgrade_required"]
                     ELSE d.reg[i]]
           outbox == {j \in d.outbox : ~ Legacy(d, j.installation)}
           old == UNION {Challenges(d, i) : i \in {k \in Installation : Legacy(d, k)}}
           events == Cancel(d.events, old)
           nonces == d.nonces \cup {<<i, d.reg[i].nonce>> :
                        i \in {k \in Installation : d.reg[k].nonce # None}}
           f == Migrate(d)
<1>1. f = [d EXCEPT !.reg = reg, !.outbox = outbox, !.events = events,
                    !.nonces = nonces]
  BY DEF Migrate
<1>2. d \in DB
  BY DEF Consistent
<1>3. \A i \in Installation :
        /\ reg[i] \in Row
        /\ Legacy(d, i) => reg[i].status = "upgrade_required"
        /\ ~ Legacy(d, i) => reg[i] = d.reg[i]
  <2> SUFFICES ASSUME NEW i \in Installation
               PROVE  /\ reg[i] \in Row
                      /\ Legacy(d, i) => reg[i].status = "upgrade_required"
                      /\ ~ Legacy(d, i) => reg[i] = d.reg[i]
    OBVIOUS
  <2>1. d.reg[i] \in Row /\ RevokeIn(d, i).reg[i] \in Row
    BY <1>2, RevokeInConsistent DEF DB
  <2>2. \A row \in Row : /\ [row EXCEPT !.status = "upgrade_required"] \in Row
                         /\ [row EXCEPT !.status = "upgrade_required"].status
                               = "upgrade_required"
    BY DEF Row, Status
  <2> QED  BY <2>1, <2>2
<1>4. events \in SUBSET Event
  <2>1. d.events \in SUBSET Event /\ old \in SUBSET d.events
    BY <1>2 DEF DB, Challenges
  <2> HIDE DEF old
  <2> QED  BY <2>1, CancelType
<1>5. nonces \in SUBSET (Installation \X Nonce)
  <2>1. \A i \in Installation : d.reg[i].nonce \in Nonce \cup {None}
    BY <1>2 DEF DB, Row
  <2> QED  BY <1>2, <2>1 DEF DB
<1>6. reg \in [Installation -> Row] /\ outbox \in SUBSET Job
  BY <1>2, <1>3 DEF DB
<1>7. \A j \in outbox : /\ j \in d.outbox /\ j.installation \in Installation
                         /\ reg[j.installation] = d.reg[j.installation]
  BY <1>2, <1>3 DEF DB, Job
<1> HIDE DEF reg, outbox, events, nonces, f
<1>8. f \in DB /\ f.reg = reg /\ f.outbox = outbox
  BY <1>1, <1>2, <1>4, <1>5, <1>6 DEF DB
<1>9. QueueCurrent(f)
  BY <1>7, <1>8 DEF QueueCurrent, Consistent
<1>10. LiveRowsBound(f)
  BY <1>3, <1>8 DEF LiveRowsBound, Consistent
<1> QED  BY <1>8, <1>9, <1>10 DEF Consistent, f

-----------------------------------------------------------------------------
(* Events *)

\* Attention rows come and go without touching registrations or the queue.
LEMMA AttentionConsistent ==
  ASSUME NEW d, Consistent(d), NEW A \in SUBSET Attention
  PROVE  LET e == [d EXCEPT !.attention = A]
         IN  Consistent(e) /\ e.reg = d.reg
BY DEF Consistent, DB, QueueCurrent, LiveRowsBound

LEMMA NoteAttentionConsistent ==
  ASSUME NEW d, Consistent(d), NEW ev \in HookEvent, NEW now \in Nat
  PROVE  Consistent(NoteAttention(d, ev, now)) /\ NoteAttention(d, ev, now).reg = d.reg
<1> DEFINE old == {a \in d.attention : a.session = ev.session /\ a.ref = ev.ref}
           number == IF old = {} THEN Top({a.row : a \in d.attention}) + 1
                     ELSE (CHOOSE a \in old : TRUE).row
           new == [row |-> number, session |-> ev.session, ref |-> ev.ref,
                   resolved |-> \/ ev.kind = "input_resolved"
                                \/ \E a \in old : a.resolved,
                   expires |-> now + 2 * TTL]
<1>1. d.attention \in SUBSET Attention
  BY DEF Consistent, DB
<1>2. number \in Nat
  <2>1. {a.row : a \in d.attention} \in SUBSET Nat
    BY <1>1 DEF Attention
  <2>2. Top({a.row : a \in d.attention}) \in Nat
    BY <2>1, TopNat
  <2>3. \A a \in old : a.row \in Nat
    BY <1>1 DEF Attention
  <2> QED  BY <2>2, <2>3
<1>3. now + 2 * TTL \in Nat
  BY StoreAssumption
<1> HIDE DEF number
<1>4. new \in Attention
  BY <1>2, <1>3 DEF Attention, HookEvent
<1>5. (d.attention \ old) \cup {new} \in SUBSET Attention
  BY <1>1, <1>4
<1> QED  BY <1>5, AttentionConsistent DEF NoteAttention, number

LEMMA ResolveSessionConsistent ==
  ASSUME NEW d, Consistent(d), NEW s
  PROVE  Consistent(ResolveSession(d, s)) /\ ResolveSession(d, s).reg = d.reg
<1>1. \A a \in d.attention : a \in Attention
  BY DEF Consistent, DB
<1>2. {IF a.session = s THEN [a EXCEPT !.resolved = TRUE] ELSE a : a \in d.attention}
        \in SUBSET Attention
  BY <1>1 DEF Attention
<1> QED  BY <1>2, AttentionConsistent DEF ResolveSession

LEMMA SettleConsistent ==
  ASSUME NEW d, Consistent(d), NEW ev \in HookEvent, NEW now \in Nat
  PROVE  Consistent(Settle(d, ev, now)) /\ Settle(d, ev, now).reg = d.reg
<1>1. CASE ev.kind = "input"
  BY <1>1, NoteAttentionConsistent DEF Settle
<1>2. CASE ev.kind = "input_resolved"
  BY <1>2, NoteAttentionConsistent, CancelAttentionConsistent DEF Settle
<1>3. CASE ev.kind \notin {"input", "input_resolved"}
  BY <1>3, ResolveSessionConsistent, CancelAttentionConsistent DEF Settle
<1> QED  BY <1>1, <1>2, <1>3

\* An event is queued for recipients the policy admits.
LEMMA RecipientsType ==
  ASSUME NEW d, Consistent(d), NEW ev, NEW targets, NEW pol \in Policy
  PROVE  /\ Recipients(d, ev, targets, pol) \subseteq Installation
         /\ \A i \in Recipients(d, ev, targets, pol) :
              d.reg[i].status = "active" /\ d.reg[i].owner \in Principal
BY DEF Recipients, AllowsEvent, ScopeAllows, Admitted, Policy

LEMMA OrderType ==
  ASSUME NEW R, R \subseteq Installation, NEW order \in ScanOrders(R)
  PROVE  Cardinality(R) \in Nat /\ \A i \in R : order[i] \in Nat
<1>1. IsFiniteSet(R)
  BY StoreAssumption, FS_Subset
<1>2. Cardinality(R) \in Nat
  BY <1>1, FS_CardinalityType
<1>3. \A i \in R : order[i] \in 1 .. Cardinality(R)
  BY DEF ScanOrders, Bijection, Injection, Surjection
<1> QED  BY <1>2, <1>3

\* Queueing the hints of an event leaves the registrations alone and queues
\* for their current generations.
LEMMA EnqueueConsistent ==
  ASSUME NEW d, Consistent(d), NEW ev \in HookEvent,
         NEW R, R \subseteq Installation,
         \A i \in R : d.reg[i].status = "active" /\ d.reg[i].owner \in Principal,
         NEW order \in ScanOrders(R), NEW expires \in Nat, NEW now \in Nat
  PROVE  Consistent(Enqueue(d, ev, R, order, expires, now))
<1> DEFINE owners == {d.reg[i].owner : i \in R}
           fresh  == {p \in owners : ~ \E e \in d.events : IsEvent(e, p, ev)}
           leader(p) == CHOOSE i \in R : d.reg[i].owner = p
           eventOf(p) == [cursor |-> d.cursor + order[leader(p)], owner |-> p,
                  kind |-> ev.kind, session |-> ev.session, ref |-> ev.ref,
                  installation |-> None, expires |-> expires,
                  cancelled |-> FALSE]
           added  == {eventOf(p) : p \in fresh}
           events == d.events \cup added
           cursorOf(i) == (CHOOSE e \in events : IsEvent(e, d.reg[i].owner, ev)).cursor
           queued == {i \in R : \E j \in d.outbox :
                        /\ j.event = cursorOf(i)
                        /\ j.installation = i
                        /\ j.generation = d.reg[i].generation}
           jobOf(i) == NewJob(Top(JobIds(d)) + order[i], cursorOf(i), i,
                              d.reg[i].generation, ev.kind, now)
           jobs == {jobOf(i) : i \in R \ queued}
           cursor == IF fresh = {} THEN d.cursor ELSE d.cursor + Cardinality(R)
           f == Enqueue(d, ev, R, order, expires, now)
<1>1. d \in DB /\ d.cursor \in Nat
  BY DEF Consistent, DB
<1>2. Cardinality(R) \in Nat /\ \A i \in R : order[i] \in Nat
  BY OrderType
<1>3. \A p \in fresh : eventOf(p) \in Event /\ IsEvent(eventOf(p), p, ev)
  <2> SUFFICES ASSUME NEW p \in fresh
               PROVE  eventOf(p) \in Event /\ IsEvent(eventOf(p), p, ev)
    OBVIOUS
  <2>1. p \in Principal /\ leader(p) \in R
    OBVIOUS
  <2>2. d.cursor + order[leader(p)] \in Nat
    BY <2>1, <1>1, <1>2
  <2> HIDE DEF leader
  <2> QED  BY <2>1, <2>2 DEF Event, HookEvent, IsEvent
<1>4. events \in SUBSET Event
  <2> HIDE DEF eventOf, fresh
  <2> QED  BY <1>1, <1>3 DEF DB
<1>5. \A i \in R : cursorOf(i) \in Nat
  <2> SUFFICES ASSUME NEW i \in R
               PROVE  cursorOf(i) \in Nat
    OBVIOUS
  <2>1. \E e \in events : IsEvent(e, d.reg[i].owner, ev)
    <3>1. CASE d.reg[i].owner \in fresh
      <4> HIDE DEF eventOf, fresh
      <4> QED  BY <3>1, <1>3
    <3>2. CASE d.reg[i].owner \notin fresh
      BY <3>2
    <3> QED  BY <3>1, <3>2
  <2> HIDE DEF events
  <2>2. \A e \in events : e.cursor \in Nat
    BY <1>4 DEF Event
  <2> QED  BY <2>1, <2>2
<1>6. Top(JobIds(d)) \in Nat
  <2>1. d.outbox \in SUBSET Job
    BY <1>1 DEF DB
  <2>2. JobIds(d) \in SUBSET Nat
    BY <2>1 DEF JobIds, Job
  <2> QED  BY <2>2, TopNat
<1>7. \A i \in R : /\ jobOf(i) \in Job
                    /\ jobOf(i).installation = i
                    /\ jobOf(i).generation = d.reg[i].generation
                    /\ jobOf(i).hint \in HookKinds
  <2> SUFFICES ASSUME NEW i \in R
               PROVE  /\ jobOf(i) \in Job
                      /\ jobOf(i).installation = i
                      /\ jobOf(i).generation = d.reg[i].generation
                      /\ jobOf(i).hint \in HookKinds
    OBVIOUS
  <2> HIDE DEF cursorOf
  <2>1. Top(JobIds(d)) + order[i] \in Nat
    BY <1>2, <1>6
  <2>2. d.reg[i].generation \in Nat /\ ev.kind \in HookKinds
    BY <1>1 DEF DB, Row, HookEvent
  <2> QED  BY <2>1, <2>2, <1>5 DEF NewJob, Job
<1>8. f = [d EXCEPT !.events = events, !.cursor = cursor,
                    !.outbox = d.outbox \cup jobs]
  BY DEF Enqueue
<1>9. jobs \in SUBSET Job /\ cursor \in Nat
  <2> HIDE DEF jobOf, queued, fresh
  <2> QED  BY <1>1, <1>2, <1>7
<1>10. \A j \in jobs : /\ j.installation \in R
                       /\ j.generation = d.reg[j.installation].generation
                       /\ j.hint \in HookKinds
  <2> HIDE DEF jobOf, queued
  <2> QED  BY <1>7
<1> HIDE DEF events, cursor, jobs, f
<1>11. /\ f \in DB /\ f.reg = d.reg /\ f.outbox = d.outbox \cup jobs
  BY <1>1, <1>4, <1>8, <1>9 DEF DB
<1>12. QueueCurrent(f)
  BY <1>10, <1>11 DEF Consistent, QueueCurrent, HintFits
<1>13. LiveRowsBound(f)
  BY <1>11 DEF Consistent, LiveRowsBound
<1> QED  BY <1>11, <1>12, <1>13 DEF Consistent, f

\* Recording an event, from a hook or from the inbox.
LEMMA RecordConsistent ==
  ASSUME NEW d, Consistent(d), NEW ev \in HookEvent, NEW targets \in Targets,
         NEW pol \in Policy, NEW order \in ScanOrders(Recipients(d, ev, targets, pol)),
         NEW expires \in Nat, NEW now \in Nat
  PROVE  Consistent(Record(d, ev, targets, pol, order, expires, now))
<1> DEFINE e == Prune(d, now)
           s == Settle(e, ev, now)
           R == Recipients(d, ev, targets, pol)
           q == Enqueue(s, ev, R, order, expires, now)
<1>1. Consistent(e) /\ e.reg = d.reg
  BY PruneConsistent
<1> HIDE DEF e
<1>2. Consistent(s) /\ s.reg = d.reg
  BY <1>1, SettleConsistent
<1> HIDE DEF s
<1>3. /\ R \subseteq Installation
      /\ \A i \in R : s.reg[i].status = "active" /\ s.reg[i].owner \in Principal
  BY <1>2, RecipientsType
<1>4. Consistent(q)
  BY <1>2, <1>3, EnqueueConsistent
<1> HIDE DEF q
<1>5. Consistent(Prune(q, now))
  BY <1>4, PruneConsistent
<1>6. \/ Record(d, ev, targets, pol, order, expires, now) = d
      \/ Record(d, ev, targets, pol, order, expires, now) = e
      \/ Record(d, ev, targets, pol, order, expires, now) = Prune(q, now)
  BY DEF Record, e, s, q
<1> QED  BY <1>1, <1>5, <1>6

-----------------------------------------------------------------------------
(* Delivery *)

\* A row keeps whose hint it is, and says the same or nothing.
SameHint(j, k) ==
  /\ k \in Job
  /\ k.installation = j.installation /\ k.generation = j.generation
  /\ k.hint \in {j.hint, ""}

\* The queue is a set of current hints before and after its rows are updated.
LEMMA QueueUpdated ==
  ASSUME NEW d, Consistent(d), NEW Q,
         \A k \in Q : \E j \in d.outbox : SameHint(j, k)
  PROVE  LET e == [d EXCEPT !.outbox = Q] IN Consistent(e) /\ e.reg = d.reg
<1> DEFINE e == [d EXCEPT !.outbox = Q]
<1>1. Q \in SUBSET Job
  BY DEF SameHint
<1>2. e \in DB /\ e.reg = d.reg /\ e.outbox = Q
  BY <1>1 DEF Consistent, DB
<1> HIDE DEF e
<1>3. QueueCurrent(e)
  <2> SUFFICES ASSUME NEW k \in Q
               PROVE  /\ k.generation = e.reg[k.installation].generation
                      /\ HintFits(e.reg[k.installation], k.hint)
    BY <1>2 DEF QueueCurrent
  <2>1. PICK j \in d.outbox : SameHint(j, k)
    OBVIOUS
  <2>2. /\ j.generation = d.reg[j.installation].generation
        /\ HintFits(d.reg[j.installation], j.hint)
    BY DEF Consistent, QueueCurrent
  <2> QED  BY <1>2, <2>1, <2>2 DEF SameHint, HintFits
<1>4. LiveRowsBound(e)
  BY <1>2 DEF Consistent, LiveRowsBound
<1> QED  BY <1>2, <1>3, <1>4 DEF Consistent, e

LEMMA ReplaceJobConsistent ==
  ASSUME NEW d, Consistent(d), NEW j \in d.outbox, NEW k, SameHint(j, k)
  PROVE  Consistent(ReplaceJob(d, j, k)) /\ ReplaceJob(d, j, k).reg = d.reg
<1>1. \A x \in d.outbox : SameHint(x, x)
  BY DEF Consistent, DB, SameHint
<1>2. \A x \in (d.outbox \ {j}) \cup {k} : \E y \in d.outbox : SameHint(y, x)
  BY <1>1
<1> QED  BY <1>2, QueueUpdated DEF ReplaceJob

\* Closing a row blanks its hint.
LEMMA ClosedJob ==
  ASSUME NEW j \in Job
  PROVE  SameHint(j, [j EXCEPT !.done = TRUE, !.hint = ""])
BY DEF Job, SameHint

LEMMA BeforeClaimConsistent ==
  ASSUME NEW d, Consistent(d), NEW now \in Nat
  PROVE  Consistent(BeforeClaim(d, now)) /\ BeforeClaim(d, now).reg = d.reg
<1> DEFINE e == Prune(d, now)
           spent == {j \in e.outbox : j.attempts >= MaxAttempts /\ j.until <= now}
           Q == (e.outbox \ spent)
                  \cup {[j EXCEPT !.done = TRUE, !.hint = ""] : j \in spent}
<1>1. Consistent(e) /\ e.reg = d.reg
  BY PruneConsistent
<1>2. e.outbox \in SUBSET Job
  BY <1>1 DEF Consistent, DB
<1>3. BeforeClaim(d, now) = [e EXCEPT !.outbox = Q]
  BY DEF BeforeClaim, CloseExhausted
<1> HIDE DEF e
<1>4. \A x \in e.outbox : SameHint(x, x)
  BY <1>2 DEF SameHint
<1>5. \A k \in Q : \E j \in e.outbox : SameHint(j, k)
  BY <1>2, <1>4, ClosedJob
<1> HIDE DEF Q
<1> QED  BY <1>1, <1>3, <1>5, QueueUpdated

\* Leasing a row.
LEMMA ClaimRowConsistent ==
  ASSUME NEW d, Consistent(d), NEW j \in d.outbox, NEW r \in Runtime,
         NEW now \in Nat
  PROVE  Consistent(ClaimRow(d, j, r, now)) /\ ClaimRow(d, j, r, now).reg = d.reg
<1> DEFINE until == now + Lease
           attempts == j.attempts + 1
           k == [j EXCEPT !.token = r, !.until = until, !.attempts = attempts]
<1>1. j \in Job
  BY DEF Consistent, DB
<1>2. until \in Nat /\ attempts \in Nat
  <2>1. Lease \in Nat /\ j.attempts \in Nat
    BY <1>1, StoreAssumption DEF Job
  <2> QED  BY <2>1
<1>3. ClaimRow(d, j, r, now) = ReplaceJob(d, j, k)
  BY DEF ClaimRow
<1> HIDE DEF until, attempts
<1>4. SameHint(j, k)
  BY <1>1, <1>2 DEF Job, SameHint
<1> QED  BY <1>3, <1>4, ReplaceJobConsistent

\* Dropping a row unsent, and closing one that was sent.
LEMMA DropJobConsistent ==
  ASSUME NEW d, Consistent(d), NEW j \in d.outbox
  PROVE  Consistent(DropJob(d, j))
<1>1. j \in Job
  BY DEF Consistent, DB
<1> QED  BY <1>1, ClosedJob, ReplaceJobConsistent DEF DropJob

LEMMA SettleJobConsistent ==
  ASSUME NEW d, Consistent(d), NEW j \in d.outbox
  PROVE  Consistent(SettleJob(d, j))
<1>1. j \in Job
  BY DEF Consistent, DB
<1>2. SameHint(j, [j EXCEPT !.done = TRUE, !.hint = "", !.token = None, !.until = 0])
  BY <1>1 DEF Job, SameHint
<1> QED  BY <1>2, ReplaceJobConsistent DEF SettleJob

\* Giving a row back for a later attempt.
LEMMA RetryJobConsistent ==
  ASSUME NEW d, Consistent(d), NEW j \in d.outbox, NEW now \in Nat
  PROVE  Consistent(RetryJob(d, j, now))
<1> DEFINE later == now + Backoff(j.attempts)
           k == [j EXCEPT !.token = None, !.until = 0, !.next = later]
<1>1. j \in Job
  BY DEF Consistent, DB
<1>2. later \in Nat
  <2>1. Backoff(j.attempts) \in Nat
    BY StoreAssumption DEF Backoff
  <2> QED  BY <2>1
<1>3. RetryJob(d, j, now) = ReplaceJob(d, j, k)
  BY DEF RetryJob
<1> HIDE DEF later
<1>4. SameHint(j, k)
  BY <1>1, <1>2 DEF Job, SameHint
<1> QED  BY <1>3, <1>4, ReplaceJobConsistent

-----------------------------------------------------------------------------
(* Numbers *)

\* A finite set of numbers has a largest and a smallest: of the elements of S
\* beyond n, some n leaves the fewest.
LEMMA FiniteEnds ==
  ASSUME NEW S \in SUBSET Int, IsFiniteSet(S), S # {}
  PROVE  /\ \E n \in S : \A m \in S : m <= n
         /\ \E n \in S : \A m \in S : n <= m
<1> DEFINE Above(n) == {m \in S : m > n}
           Below(n) == {m \in S : m < n}
           R == StrictSubsetOrdering(S)
<1>1. IsWellFoundedOn(R, FiniteSubsetsOf(S))
  BY FS_StrictSubsetOrderingWellFounded
<1>2. \A T \in SUBSET S : T \in FiniteSubsetsOf(S)
  BY FS_Subset DEF FiniteSubsetsOf
<1>3. \E n \in S : \A m \in S : m <= n
  <2> DEFINE F == {Above(n) : n \in S}
  <2>1. F \subseteq FiniteSubsetsOf(S) /\ F # {}
    BY <1>2
  <2>2. PICK x \in F : \A y \in F : <<y, x>> \notin R
    <3> HIDE DEF F, R
    <3> QED  BY <1>1, <2>1, WFMin
  <2>3. PICK n \in S : x = Above(n)
    BY <2>2
  <2>4. ASSUME NEW m \in S, m > n
        PROVE  FALSE
    <3>1. Above(m) \in F /\ <<Above(m), x>> \notin R
      BY <2>2
    <3>2. Above(m) \subseteq x /\ m \in x /\ m \notin Above(m)
      <4>1. m \in Int /\ n \in Int /\ S \subseteq Int
        OBVIOUS
      <4>2. \A y \in S : y > m => y > n
        BY <2>4, <4>1
      <4>3. m \notin Above(m)
        BY <4>1
      <4> QED  BY <2>3, <2>4, <4>2, <4>3
    <3>3. <<Above(m), x>> \in R
      BY <2>3, <3>2 DEF StrictSubsetOrdering
    <3> QED  BY <3>1, <3>3
  <2> QED  BY <2>4
<1>4. \E n \in S : \A m \in S : n <= m
  <2> DEFINE F == {Below(n) : n \in S}
  <2>1. F \subseteq FiniteSubsetsOf(S) /\ F # {}
    BY <1>2
  <2>2. PICK x \in F : \A y \in F : <<y, x>> \notin R
    <3> HIDE DEF F, R
    <3> QED  BY <1>1, <2>1, WFMin
  <2>3. PICK n \in S : x = Below(n)
    BY <2>2
  <2>4. ASSUME NEW m \in S, m < n
        PROVE  FALSE
    <3>1. Below(m) \in F /\ <<Below(m), x>> \notin R
      BY <2>2
    <3>2. Below(m) \subseteq x /\ m \in x /\ m \notin Below(m)
      <4>1. m \in Int /\ n \in Int /\ S \subseteq Int
        OBVIOUS
      <4>2. \A y \in S : y < m => y < n
        BY <2>4, <4>1
      <4>3. m \notin Below(m)
        BY <4>1
      <4> QED  BY <2>3, <2>4, <4>2, <4>3
    <3>3. <<Below(m), x>> \in R
      BY <2>3, <3>2 DEF StrictSubsetOrdering
    <3> QED  BY <3>1, <3>3
  <2> QED  BY <2>4
<1> QED  BY <1>3, <1>4

\* The next rowid of a finite table is above every row's.
LEMMA TopAbove ==
  ASSUME NEW S \in SUBSET Nat, IsFiniteSet(S)
  PROVE  Top(S) \in Nat /\ \A m \in S : m <= Top(S)
<1>1. CASE S = {}
  BY <1>1 DEF Top
<1>2. CASE S # {}
  <2>1. \E n \in S : \A m \in S : m <= n
    BY <1>2, FiniteEnds
  <2> QED  BY <2>1 DEF Top
<1> QED  BY <1>1, <1>2

\* The newest rows of a finite table, numbered by a key, are at most as many as
\* are asked for: the oldest of them has all the others after it.
LEMMA NewestFew ==
  ASSUME NEW E, IsFiniteSet(E), NEW key \in [E -> Nat], NEW n \in Nat \ {0},
         \A e, f \in E : key[e] = key[f] => e = f
  PROVE  LET N == {e \in E : Cardinality({f \in E : key[f] > key[e]}) < n}
         IN  IsFiniteSet(N) /\ Cardinality(N) <= n
<1> DEFINE After(e) == {f \in E : key[f] > key[e]}
           N == {e \in E : Cardinality(After(e)) < n}
<1>1. IsFiniteSet(N)
  BY FS_Subset
<1>2. Cardinality(N) \in Nat
  BY <1>1, FS_CardinalityType
<1>3. ASSUME N = {}
      PROVE  Cardinality(N) <= n
  <2> HIDE DEF N
  <2> QED  BY <1>3, FS_EmptySet
<1>4. ASSUME N # {}
      PROVE  Cardinality(N) <= n
  <2> DEFINE K == {key[e] : e \in N}
  <2>0. N \subseteq E /\ \A e \in E : key[e] \in Nat
    OBVIOUS
  <2>1. K \in SUBSET Int /\ K # {}
    <3> HIDE DEF N
    <3> QED  BY <1>4, <2>0
  <2>2. IsFiniteSet(K)
    <3> DEFINE h == [e \in N |-> key[e]]
    <3>1. h \in Surjection(N, K)
      BY DEF Surjection
    <3> QED  BY <1>1, <3>1, FS_Surjection
  <2>3. PICK k \in K : \A m \in K : k <= m
    <3> HIDE DEF K
    <3> QED  BY <2>1, <2>2, FiniteEnds
  <2>4. PICK e \in N : key[e] = k
    BY <2>3
  <2>5. N \ {e} \in SUBSET After(e)
    <3>1. ASSUME NEW f \in N \ {e}
          PROVE  f \in E /\ key[f] > key[e]
      <4> HIDE DEF N
      <4>1. key[f] \in Nat /\ key[e] \in Nat /\ key[f] # key[e]
        BY <2>0
      <4>2. key[e] <= key[f]
        BY <2>3, <2>4
      <4> QED  BY <2>0, <4>1, <4>2
    <3> QED  BY <3>1
  <2>6. IsFiniteSet(After(e))
    BY FS_Subset
  <2>7. Cardinality(N \ {e}) <= Cardinality(After(e))
    BY <2>5, <2>6, FS_Subset
  <2>8. Cardinality(N \ {e}) = Cardinality(N) - 1
    BY <1>1, FS_RemoveElement
  <2>9. Cardinality(After(e)) \in Nat /\ Cardinality(After(e)) < n
    BY <2>6, FS_CardinalityType
  <2>10. Cardinality(N) - 1 < n
    <3> HIDE DEF N, After
    <3> QED  BY <1>2, <2>7, <2>8, <2>9
  <2> HIDE DEF N, After
  <2> QED  BY <1>2, <2>10
<1> QED  BY <1>1, <1>3, <1>4

-----------------------------------------------------------------------------
(* Kinds of change *)

\* The same row of events, cancelled perhaps.
SameEvent(c, e) ==
  /\ e.cursor = c.cursor
  /\ e.kind = c.kind
  /\ e.session = c.session
  /\ e.ref = c.ref
  /\ e.owner = c.owner
  /\ e.expires = c.expires
  /\ c.cancelled => e.cancelled

\* What no transaction takes back: cursors, generations, cancelled events; and
\* who holds a lease is only changed by the claim of another.
Kept(d, f) ==
  /\ d.cursor <= f.cursor
  /\ \A i \in Installation : d.reg[i].generation <= f.reg[i].generation
  /\ \A e \in f.events : e.cursor <= d.cursor =>
       \E c \in d.events : SameEvent(c, e)
  /\ \A j \in f.outbox \ d.outbox : j.done \/ j.token = None

\* Events are cut or cancelled; a hint goes only with its event.
Trims(d, f) ==
  /\ f.reg = d.reg /\ f.nonces = d.nonces /\ f.cursor = d.cursor
  /\ f.outbox \subseteq d.outbox /\ f.attention \subseteq d.attention
  /\ IsFiniteSet(f.events)
  /\ \A e \in f.events : \E c \in d.events : SameEvent(c, e)
  /\ \A e, c \in f.events : e.cursor = c.cursor => e = c
  /\ \A j \in f.outbox : \E e \in f.events : e.cursor = j.event
  /\ \A j \in d.outbox \ f.outbox, e \in f.events :
       e.cursor = j.event => e.cancelled

\* The authorities of I end, with their hints.
Ends(d, f, I) ==
  /\ \A i \in Installation \ I : f.reg[i] = d.reg[i]
  /\ \A i \in I : /\ f.reg[i].status # "pending"
                  /\ f.reg[i].challenge = 0
                  /\ f.reg[i].generation >= d.reg[i].generation
  /\ RowsKeyed(f)
  /\ f.cursor = d.cursor
  /\ f.outbox = {j \in d.outbox : j.installation \notin I}
  /\ f.attention = d.attention
  /\ IsFiniteSet(f.events)
  /\ \A e \in f.events : \E c \in d.events : SameEvent(c, e)
  /\ \A c \in d.events : \E e \in f.events : SameEvent(c, e)
  /\ \A e, c \in f.events : e.cursor = c.cursor => e = c

\* A hint goes on, with one attempt more or closed.
SameRow(j, k) ==
  /\ k.id = j.id /\ SameKey(j, k)
  /\ k.hint \in {j.hint, ""} /\ (k.done <=> k.hint = "")
  /\ k.attempts >= j.attempts /\ k.attempts <= MaxAttempts

Moves(d, f) ==
  /\ f.reg = d.reg /\ f.nonces = d.nonces /\ f.cursor = d.cursor
  /\ f.events = d.events /\ f.attention = d.attention
  /\ \A k \in f.outbox : \E j \in d.outbox : SameRow(j, k)
  /\ \A j \in d.outbox : \E k \in f.outbox : SameRow(j, k)
  /\ \A j, k \in f.outbox : j.id = k.id => j = k
  /\ IsFiniteSet(f.outbox)

\* Registration i is renewed: its queue is one challenge, with a new cursor.
Challenge(f, i, hint) ==
  /\ hint.event = f.cursor /\ hint.installation = i
  /\ hint.generation = f.reg[i].generation /\ hint.hint = "challenge"
  /\ hint.attempts = 0 /\ hint.token = None /\ ~ hint.done

Renews(d, f, i) ==
  /\ f.reg = [d.reg EXCEPT ![i] = f.reg[i]]
  /\ f.reg[i].status = "pending" /\ f.reg[i].challenge = f.cursor
  /\ f.reg[i].generation = d.reg[i].generation + 1
  /\ f.nonces = d.nonces \cup {<<i, f.reg[i].nonce>>}
  /\ f.cursor = d.cursor + 1
  /\ f.attention = d.attention
  /\ IsFiniteSet(f.events)
  /\ \A e \in f.events : \/ e.cursor = f.cursor /\ e.kind = "challenge"
                         \/ \E c \in d.events : SameEvent(c, e)
  /\ \A c \in d.events : \E e \in f.events : SameEvent(c, e)
  /\ \E e \in f.events : e.cursor = f.cursor
  /\ \A e, c \in f.events : e.cursor = c.cursor => e = c
  /\ \E hint : /\ Challenge(f, i, hint)
               /\ \A j \in d.outbox : j.installation # i => j.id # hint.id
               /\ f.outbox = {j \in d.outbox : j.installation # i} \cup {hint}

\* Events of ev are added, and hints of them for registrations of R.
AnnouncedBy(e, ev) == e.kind = ev.kind /\ e.session = ev.session /\ e.ref = ev.ref

Adds(d, f, ev, R) ==
  /\ f.reg = d.reg /\ f.nonces = d.nonces /\ f.attention = d.attention
  /\ d.cursor <= f.cursor
  /\ d.events \subseteq f.events /\ IsFiniteSet(f.events)
  /\ \A e \in f.events \ d.events :
       /\ e.cursor > d.cursor /\ e.cursor <= f.cursor
       /\ AnnouncedBy(e, ev)
  /\ \A e, c \in f.events : e.cursor = c.cursor => e = c
  /\ d.outbox \subseteq f.outbox /\ IsFiniteSet(f.outbox)
  /\ \A j \in f.outbox \ d.outbox :
       /\ j.attempts = 0 /\ j.token = None /\ j.done = FALSE /\ j.hint = ev.kind
       /\ j.installation \in R
       /\ \E e \in f.events : e.cursor = j.event /\ AnnouncedBy(e, ev)
       /\ \A k \in d.outbox : ~ SameKey(k, j)
  /\ \A j, k \in f.outbox : j.id = k.id \/ SameKey(j, k) => j = k

-----------------------------------------------------------------------------
(* Each kind keeps tables sound *)

LEMMA KeptSame ==
  ASSUME NEW d, Consistent(d)
  PROVE  Kept(d, d)
<1>1. d.cursor \in Nat /\ \A i \in Installation : d.reg[i].generation \in Nat
  BY DEF Consistent, DB, Row
<1> QED  BY <1>1 DEF Kept, SameEvent

LEMMA KeptTransitive ==
  ASSUME NEW d, NEW e, NEW f, Consistent(d), Consistent(e), Consistent(f),
         Kept(d, e), Kept(e, f)
  PROVE  Kept(d, f)
<1>1. \A x \in {d, e, f} : /\ x.cursor \in Nat
                           /\ x.events \subseteq Event
                           /\ \A i \in Installation : x.reg[i].generation \in Nat
  BY DEF Consistent, DB, Row
<1>2. d.cursor <= f.cursor
  BY <1>1 DEF Kept
<1>3. \A i \in Installation : d.reg[i].generation <= f.reg[i].generation
  BY <1>1 DEF Kept
<1>4. \A x \in f.events : x.cursor <= d.cursor => \E c \in d.events : SameEvent(c, x)
  <2> SUFFICES ASSUME NEW x \in f.events, x.cursor <= d.cursor
               PROVE  \E c \in d.events : SameEvent(c, x)
    OBVIOUS
  <2>1. x.cursor <= e.cursor
    BY <1>1 DEF Kept, Event
  <2>2. PICK y \in e.events : SameEvent(y, x)
    BY <2>1 DEF Kept
  <2>3. PICK c \in d.events : SameEvent(c, y)
    BY <2>2 DEF Kept, SameEvent
  <2> QED  BY <2>2, <2>3 DEF SameEvent
<1>5. \A j \in f.outbox \ d.outbox : j.done \/ j.token = None
  BY DEF Kept
<1> QED  BY <1>2, <1>3, <1>4, <1>5 DEF Kept

LEMMA TrimsKept ==
  ASSUME NEW d, NEW f, Consistent(d), Trims(d, f)
  PROVE  Kept(d, f)
<1>1. d.cursor \in Nat /\ \A i \in Installation : d.reg[i].generation \in Nat
  BY DEF Consistent, DB, Row
<1> QED  BY <1>1 DEF Kept, Trims

LEMMA TrimsSound ==
  ASSUME NEW d, NEW f, Sound(d), Trims(d, f)
  PROVE  Sound(f)
<1>0. Finite(f)
  BY FS_Subset DEF Trims, Sound, Finite
<1>1. EventsKeyed(f)
  BY DEF Sound, Trims, EventsKeyed, SameEvent
<1>2. HintsKeyed(f)
  BY DEF Sound, Trims, HintsKeyed
<1>3. AttentionKeyed(f)
  BY DEF Sound, Trims, AttentionKeyed
<1>4. RowsKeyed(f)
  BY DEF Sound, Trims, RowsKeyed, Exists
<1>5. ChallengesFit(f)
  BY DEF Sound, Trims, ChallengesFit, SameEvent
<1>6. HintsClose(f)
  BY DEF Sound, Trims, HintsClose
<1>7. Unannounced(f)
  <2> SUFFICES ASSUME NEW e \in f.events, NEW a \in f.attention, e.kind = "input",
                      a.session = e.session, a.ref = e.ref, a.resolved
               PROVE  e.cancelled /\ ~ \E j \in f.outbox : j.event = e.cursor
    BY DEF Unannounced
  <2>1. PICK c \in d.events : SameEvent(c, e)
    BY DEF Trims
  <2>2. c.cancelled /\ ~ \E j \in d.outbox : j.event = c.cursor
    BY <2>1 DEF Sound, Trims, Unannounced, SameEvent
  <2> QED  BY <2>1, <2>2 DEF Trims, SameEvent
<1> QED  BY <1>0, <1>1, <1>2, <1>3, <1>4, <1>5, <1>6, <1>7 DEF Sound

LEMMA EndsKept ==
  ASSUME NEW d, NEW f, NEW I, Consistent(d), Ends(d, f, I)
  PROVE  Kept(d, f)
<1>1. d.cursor \in Nat /\ \A i \in Installation : d.reg[i].generation \in Nat
  BY DEF Consistent, DB, Row
<1>2. \A i \in Installation : d.reg[i].generation <= f.reg[i].generation
  BY <1>1 DEF Ends
<1>3. f.outbox \subseteq d.outbox
  BY DEF Ends
<1> QED  BY <1>1, <1>2, <1>3 DEF Kept, Ends

LEMMA EndsSound ==
  ASSUME NEW d, NEW f, NEW I \in SUBSET Installation, Consistent(d), Sound(d),
         Ends(d, f, I)
  PROVE  Sound(f)
<1>0. Finite(f)
  BY FS_Subset DEF Ends, Sound, Finite
<1>1. EventsKeyed(f)
  BY DEF Sound, Ends, EventsKeyed, SameEvent
<1>2. HintsKeyed(f)
  BY DEF Sound, Ends, HintsKeyed, SameEvent
<1>3. AttentionKeyed(f)
  BY DEF Sound, Ends, AttentionKeyed
<1>4. RowsKeyed(f)
  BY DEF Ends
<1>5. ChallengesFit(f)
  <2>0. d.cursor \in Nat /\ f.cursor = d.cursor /\ ChallengesFit(d)
    BY DEF Consistent, DB, Ends, Sound
  <2>1. \A i \in Installation : f.reg[i].challenge <= f.cursor
    BY <2>0 DEF Ends, ChallengesFit
  <2>2. \A i, k \in Installation :
          f.reg[i].challenge = f.reg[k].challenge /\ f.reg[i].challenge # 0 => i = k
    BY <2>0 DEF Ends, ChallengesFit
  <2>3. \A j \in f.outbox : /\ j \in d.outbox
                            /\ f.reg[j.installation] = d.reg[j.installation]
    BY DEF Ends, Consistent, DB, Job
  <2>4. \A j \in f.outbox, e \in f.events :
          e.cursor = j.event =>
            (e.kind = "challenge" <=> f.reg[j.installation].status = "pending")
    BY <2>0, <2>3 DEF Ends, ChallengesFit, SameEvent
  <2> QED  BY <2>0, <2>1, <2>2, <2>3, <2>4 DEF ChallengesFit
<1>6. HintsClose(f)
  BY DEF Sound, Ends, HintsClose
<1>7. Unannounced(f)
  <2> SUFFICES ASSUME NEW e \in f.events, NEW a \in f.attention, e.kind = "input",
                      a.session = e.session, a.ref = e.ref, a.resolved
               PROVE  e.cancelled /\ ~ \E j \in f.outbox : j.event = e.cursor
    BY DEF Unannounced
  <2>1. PICK c \in d.events : SameEvent(c, e)
    BY DEF Ends
  <2>2. c.cancelled /\ ~ \E j \in d.outbox : j.event = c.cursor
    BY <2>1 DEF Sound, Ends, Unannounced, SameEvent
  <2> QED  BY <2>1, <2>2 DEF Ends, SameEvent
<1> QED  BY <1>0, <1>1, <1>2, <1>3, <1>4, <1>5, <1>6, <1>7 DEF Sound

LEMMA MovesSound ==
  ASSUME NEW d, NEW f, Consistent(d), Sound(d), Moves(d, f)
  PROVE  Sound(f)
<1>1. /\ f.reg = d.reg /\ f.nonces = d.nonces /\ f.cursor = d.cursor
      /\ f.events = d.events /\ f.attention = d.attention
  BY DEF Moves
<1>2. \A k \in f.outbox : \E j \in d.outbox :
        /\ k.id = j.id /\ k.event = j.event
        /\ k.installation = j.installation /\ k.generation = j.generation
        /\ k.hint \in {j.hint, ""}
  BY DEF Moves, SameRow, SameKey
<1>0. Finite(f)
  BY DEF Moves, Sound, Finite
<1>3. EventsKeyed(f) /\ AttentionKeyed(f)
  BY <1>1 DEF Sound, EventsKeyed, AttentionKeyed
<1>4. HintsKeyed(f)
  <2>1. \A j, k \in f.outbox : SameKey(j, k) => j = k
    <3> SUFFICES ASSUME NEW x \in f.outbox, NEW y \in f.outbox, SameKey(x, y)
                 PROVE  x.id = y.id
      BY DEF Moves
    <3>1. PICK j \in d.outbox : x.id = j.id /\ SameKey(x, j)
      BY <1>2 DEF SameKey
    <3>2. PICK k \in d.outbox : y.id = k.id /\ SameKey(y, k)
      BY <1>2 DEF SameKey
    <3>3. SameKey(j, k)
      BY <3>1, <3>2 DEF SameKey
    <3> QED  BY <3>1, <3>2, <3>3 DEF Sound, HintsKeyed
  <2>2. \A j \in f.outbox : \E e \in f.events : e.cursor = j.event
    <3>1. \A k \in d.outbox : \E e \in f.events : e.cursor = k.event
      BY <1>1 DEF Sound, HintsKeyed
    <3> QED  BY <1>2, <3>1
  <2> QED  BY <2>1, <2>2 DEF HintsKeyed, Moves
<1>5. RowsKeyed(f)
  BY <1>1 DEF Sound, RowsKeyed, Exists
<1>6. ChallengesFit(f)
  <2>1. ChallengesFit(d)
    BY DEF Sound
  <2>2. \A j \in f.outbox :
          j.hint = "challenge" => j.event = f.reg[j.installation].challenge
    <3>1. \A k \in d.outbox :
            k.hint = "challenge" => k.event = f.reg[k.installation].challenge
      BY <1>1, <2>1 DEF ChallengesFit
    <3> QED  BY ZenonT(40), <1>2, <3>1
  <2>3. \A j \in f.outbox, e \in f.events :
          e.cursor = j.event =>
            (e.kind = "challenge" <=> f.reg[j.installation].status = "pending")
    <3>1. \A k \in d.outbox, e \in f.events :
            e.cursor = k.event =>
              (e.kind = "challenge" <=> f.reg[k.installation].status = "pending")
      BY <1>1, <2>1 DEF ChallengesFit
    <3> QED  BY ZenonT(40), <1>2, <3>1
  <2> QED  BY <1>1, <2>1, <2>2, <2>3 DEF ChallengesFit
<1>7. HintsClose(f)
  BY DEF HintsClose, Moves, SameRow
<1>8. Unannounced(f)
  <2>1. Unannounced(d)
    BY DEF Sound
  <2> QED  BY ZenonT(40), <1>1, <1>2, <2>1 DEF Unannounced
<1> QED  BY <1>0, <1>3, <1>4, <1>5, <1>6, <1>7, <1>8 DEF Sound

LEMMA RenewsKept ==
  ASSUME NEW d, NEW f, NEW i \in Installation, Consistent(d), Renews(d, f, i)
  PROVE  Kept(d, f)
<1>1. /\ d.cursor \in Nat /\ d.reg \in [Installation -> Row]
      /\ \A k \in Installation : d.reg[k].generation \in Nat
  BY DEF Consistent, DB, Row
<1>2. \A k \in Installation : d.reg[k].generation <= f.reg[k].generation
  BY <1>1 DEF Renews
<1>3. \A e \in f.events : e.cursor <= d.cursor => \E c \in d.events : SameEvent(c, e)
  BY <1>1 DEF Renews
<1>4. \A j \in f.outbox \ d.outbox : j.done \/ j.token = None
  BY DEF Renews, Challenge
<1> QED  BY <1>1, <1>2, <1>3, <1>4 DEF Kept, Renews

LEMMA RenewsSound ==
  ASSUME NEW d, NEW f, NEW i \in Installation, Consistent(d), Consistent(f),
         Sound(d), Renews(d, f, i)
  PROVE  Sound(f)
<1> DEFINE others == {j \in d.outbox : j.installation # i}
<1>1. /\ d.cursor \in Nat /\ d.reg \in [Installation -> Row]
      /\ d.outbox \subseteq Job /\ d.events \subseteq Event
      /\ \A k \in Installation : /\ d.reg[k].generation \in Nat
                                 /\ d.reg[k].challenge \in Nat
  BY DEF Consistent, DB, Row
<1>2. \A k \in Installation \ {i} : f.reg[k] = d.reg[k]
  BY <1>1 DEF Renews
<1>3. PICK hint : /\ Challenge(f, i, hint)
                  /\ \A j \in d.outbox : j.installation # i => j.id # hint.id
                  /\ f.outbox = others \cup {hint}
  BY DEF Renews
<1>4. \A j \in others : /\ j \in d.outbox /\ j.installation \in Installation \ {i}
                         /\ j.id \in Nat /\ j.id # hint.id
                         /\ j.installation # hint.installation
  BY <1>1, <1>3 DEF Job, Challenge
<1>5. \A e \in d.events : e.cursor \in Nat /\ e.cursor <= d.cursor
  BY <1>1 DEF Sound, EventsKeyed, Event
<1>6. \A j \in d.outbox : \E e \in d.events : e.cursor = j.event
  BY DEF Sound, HintsKeyed
<1>7. \A j \in others : j.event \in Nat /\ j.event <= d.cursor
  BY <1>4, <1>5, <1>6
<1> HIDE DEF others
<1>8. Finite(f)
  <2>1. IsFiniteSet(others)
    BY FS_Subset DEF Sound, Finite, others
  <2>2. IsFiniteSet(f.outbox)
    BY <1>3, <2>1, FS_AddElement
  <2> QED  BY <2>2 DEF Finite, Renews, Sound
<1>9. EventsKeyed(f)
  BY <1>1, <1>5 DEF EventsKeyed, Renews, SameEvent
<1>10. HintsKeyed(f)
  <2>1. \A j, k \in f.outbox : j.id = k.id \/ SameKey(j, k) => j = k
    <3>1. \A j, k \in others : j.id = k.id \/ SameKey(j, k) => j = k
      BY <1>4 DEF Sound, HintsKeyed
    <3>2. \A j \in others : j.id # hint.id /\ ~ SameKey(j, hint) /\ ~ SameKey(hint, j)
      BY <1>4 DEF SameKey
    <3> QED  BY <1>3, <3>1, <3>2
  <2>2. \A j \in f.outbox : \E e \in f.events : e.cursor = j.event
    BY <1>3, <1>4, <1>6 DEF Renews, SameEvent, Challenge
  <2> QED  BY <2>1, <2>2 DEF HintsKeyed
<1>11. AttentionKeyed(f)
  BY DEF Sound, AttentionKeyed, Renews
<1>12. RowsKeyed(f)
  <2>1. Exists(f, i) /\ f.reg[i].generation # 0
    BY <1>1 DEF Renews, Exists
  <2>2. \A k \in Installation \ {i}, n \in Nonce : <<k, n>> \in f.nonces => <<k, n>> \in d.nonces
    BY DEF Renews
  <2> QED  BY <1>2, <2>1, <2>2 DEF RowsKeyed, Exists, Sound
<1>13. ChallengesFit(f)
  <2>1. ChallengesFit(d) /\ f.cursor = d.cursor + 1
    BY DEF Sound, Renews
  <2>2. f.reg[i].challenge = d.cursor + 1 /\ f.reg[i].status = "pending"
    BY DEF Renews
  <2>3. \A k \in Installation : d.reg[k].challenge <= d.cursor
    BY <2>1 DEF ChallengesFit
  <2>4. \A k \in Installation : f.reg[k].challenge <= f.cursor
    BY <1>1, <1>2, <2>1, <2>2, <2>3
  <2>5. \A k, m \in Installation :
          f.reg[k].challenge = f.reg[m].challenge /\ f.reg[k].challenge # 0 => k = m
    <3>1. \A k \in Installation \ {i} : f.reg[k].challenge # f.reg[i].challenge
      BY <1>1, <1>2, <2>2, <2>3
    <3> QED  BY <1>2, <2>1, <3>1 DEF ChallengesFit
  <2>6. \A j \in f.outbox :
          j.hint = "challenge" => j.event = f.reg[j.installation].challenge
    <3>1. \A j \in others :
            j.hint = "challenge" => j.event = f.reg[j.installation].challenge
      BY <1>2, <1>4, <2>1 DEF ChallengesFit
    <3> QED  BY <1>3, <2>1, <2>2, <3>1 DEF Challenge
  <2>7. \A j \in f.outbox, e \in f.events :
          e.cursor = j.event =>
            (e.kind = "challenge" <=> f.reg[j.installation].status = "pending")
    <3> SUFFICES ASSUME NEW j \in f.outbox, NEW e \in f.events, e.cursor = j.event
                 PROVE  e.kind = "challenge" <=> f.reg[j.installation].status = "pending"
      OBVIOUS
    <3>1. CASE j = hint
      <4>1. e.cursor = d.cursor + 1
        BY <3>1, <1>3, <2>1 DEF Challenge
      <4>2. ~ \E c \in d.events : SameEvent(c, e)
        BY <4>1, <1>1, <1>5 DEF SameEvent
      <4>3. e.kind = "challenge"
        BY <4>2 DEF Renews
      <4> QED  BY <4>3, <3>1, <1>3, <2>2 DEF Challenge
    <3>2. CASE j \in others
      <4>1. e.cursor # f.cursor
        BY <3>2, <1>1, <1>7, <2>1
      <4>2. PICK c \in d.events : SameEvent(c, e)
        BY <4>1 DEF Renews
      <4>3. c.kind = "challenge" <=> d.reg[j.installation].status = "pending"
        BY <3>2, <1>4, <2>1, <4>2 DEF ChallengesFit, SameEvent
      <4> QED  BY <3>2, <1>2, <1>4, <4>2, <4>3 DEF SameEvent
    <3> QED  BY <1>3, <3>1, <3>2
  <2> QED  BY <2>4, <2>5, <2>6, <2>7 DEF ChallengesFit
<1>14. HintsClose(f)
  <2>0. \A j \in d.outbox : (j.done <=> j.hint = "") /\ j.attempts <= MaxAttempts
    BY DEF Sound, HintsClose
  <2>1. \A j \in others : (j.done <=> j.hint = "") /\ j.attempts <= MaxAttempts
    BY <1>4, <2>0
  <2>2. (hint.done <=> hint.hint = "") /\ hint.attempts <= MaxAttempts
    BY <1>3, StoreAssumption DEF Challenge
  <2> QED  BY <1>3, <2>1, <2>2 DEF HintsClose
<1>15. Unannounced(f)
  <2> SUFFICES ASSUME NEW e \in f.events, NEW a \in f.attention, e.kind = "input",
                      a.session = e.session, a.ref = e.ref, a.resolved
               PROVE  e.cancelled /\ ~ \E j \in f.outbox : j.event = e.cursor
    BY DEF Unannounced
  <2>1. PICK c \in d.events : SameEvent(c, e)
    BY DEF Renews
  <2>2. c.cancelled /\ ~ \E j \in d.outbox : j.event = c.cursor
    BY <2>1 DEF Sound, Unannounced, SameEvent, Renews
  <2>3. e.cursor # d.cursor + 1
    BY <1>1, <1>5, <2>1 DEF SameEvent
  <2>4. hint.event = d.cursor + 1
    BY <1>3 DEF Challenge, Renews
  <2> QED  BY <1>3, <1>4, <2>1, <2>2, <2>3, <2>4 DEF SameEvent
<1> QED  BY <1>8, <1>9, <1>10, <1>11, <1>12, <1>13, <1>14, <1>15 DEF Sound

LEMMA AddsKept ==
  ASSUME NEW d, NEW f, NEW ev, NEW R, Consistent(d), Consistent(f),
         Adds(d, f, ev, R)
  PROVE  Kept(d, f)
<1>1. /\ d.cursor \in Nat /\ \A i \in Installation : d.reg[i].generation \in Nat
      /\ \A e \in f.events : e.cursor \in Nat
  BY DEF Consistent, DB, Row, Event
<1>2. \A e \in f.events : e.cursor <= d.cursor => e \in d.events
  <2> SUFFICES ASSUME NEW e \in f.events \ d.events
               PROVE  ~ (e.cursor <= d.cursor)
    OBVIOUS
  <2> QED  BY <1>1 DEF Adds
<1>3. \A e \in f.events : e.cursor <= d.cursor => \E c \in d.events : SameEvent(c, e)
  BY <1>2 DEF SameEvent
<1>4. \A j \in f.outbox \ d.outbox : j.token = None
  BY DEF Adds
<1> QED  BY <1>1, <1>3, <1>4 DEF Kept, Adds

LEMMA AddsSound ==
  ASSUME NEW d, NEW f, NEW ev \in HookEvent, NEW R \in SUBSET Installation,
         Consistent(d), Consistent(f), Sound(d), Adds(d, f, ev, R),
         \A i \in R : d.reg[i].status = "active",
         ev.kind = "input" =>
           \A a \in d.attention :
             a.session = ev.session /\ a.ref = ev.ref => ~ a.resolved
  PROVE  Sound(f)
<1>1. /\ d.cursor \in Nat /\ f.cursor \in Nat /\ d.cursor <= f.cursor
      /\ \A e \in f.events : e.cursor \in Nat
      /\ \A i \in Installation : d.reg[i].challenge \in Nat
  BY DEF Consistent, DB, Event, Row, Adds
<1>2. ev.kind # "challenge" /\ ev.kind # ""
  BY DEF HookEvent, HookKinds, TurnKinds, InputKinds
<1>3. \A j \in f.outbox \ d.outbox :
        \A e \in f.events : e.cursor = j.event => AnnouncedBy(e, ev)
  BY DEF Adds
<1>4. Finite(f)
  BY DEF Adds, Finite, Sound
<1>5. EventsKeyed(f)
  <2>1. \A e \in d.events : e.cursor <= d.cursor
    BY DEF Sound, EventsKeyed
  <2>2. \A e \in f.events : e.cursor <= f.cursor
    <3> SUFFICES ASSUME NEW e \in f.events
                 PROVE  e.cursor <= f.cursor
      OBVIOUS
    <3>1. CASE e \in d.events
      BY <1>1, <2>1, <3>1
    <3>2. CASE e \notin d.events
      BY <3>2 DEF Adds
    <3> QED  BY <3>1, <3>2
  <2> QED  BY <2>2 DEF EventsKeyed, Adds
<1>6. HintsKeyed(f)
  <2>1. \A j \in f.outbox : \E e \in f.events : e.cursor = j.event
    BY DEF Adds, Sound, HintsKeyed
  <2> QED  BY <2>1 DEF HintsKeyed, Adds
<1>7. AttentionKeyed(f)
  BY DEF Sound, AttentionKeyed, Adds
<1>8. RowsKeyed(f)
  BY DEF Sound, RowsKeyed, Exists, Adds
<1>9. ChallengesFit(f)
  <2>0. ChallengesFit(d) /\ f.reg = d.reg
    BY DEF Sound, Adds
  <2>1. \A i \in Installation : f.reg[i].challenge <= f.cursor
    <3>1. \A i \in Installation : d.reg[i].challenge <= d.cursor
      BY <2>0 DEF ChallengesFit
    <3> QED  BY <1>1, <2>0, <3>1
  <2>2. \A j \in f.outbox :
          j.hint = "challenge" => j.event = f.reg[j.installation].challenge
    <3>1. \A j \in f.outbox \ d.outbox : j.hint # "challenge"
      BY <1>2 DEF Adds
    <3> QED  BY <2>0, <3>1 DEF ChallengesFit
  <2>3. \A j \in f.outbox, e \in f.events :
          e.cursor = j.event =>
            (e.kind = "challenge" <=> f.reg[j.installation].status = "pending")
    <3> SUFFICES ASSUME NEW j \in f.outbox, NEW e \in f.events, e.cursor = j.event
                 PROVE  e.kind = "challenge" <=> f.reg[j.installation].status = "pending"
      OBVIOUS
    <3>1. CASE j \in d.outbox
      <4>1. PICK c \in d.events : c.cursor = j.event
        BY <3>1 DEF Sound, HintsKeyed
      <4>2. c = e
        BY <4>1 DEF Adds
      <4> QED  BY <2>0, <3>1, <4>1, <4>2 DEF ChallengesFit
    <3>2. CASE j \notin d.outbox
      <4>1. e.kind # "challenge"
        BY <1>2, <1>3, <3>2 DEF AnnouncedBy
      <4>2. f.reg[j.installation].status = "active"
        BY <2>0, <3>2 DEF Adds
      <4> QED  BY <4>1, <4>2
    <3> QED  BY <3>1, <3>2
  <2> QED  BY <2>0, <2>1, <2>2, <2>3 DEF ChallengesFit
<1>10. HintsClose(f)
  <2>1. \A j \in d.outbox : (j.done <=> j.hint = "") /\ j.attempts <= MaxAttempts
    BY DEF Sound, HintsClose
  <2>2. 0 <= MaxAttempts
    BY StoreAssumption
  <2>3. \A j \in f.outbox \ d.outbox :
          (j.done <=> j.hint = "") /\ j.attempts <= MaxAttempts
    BY <1>2, <2>2 DEF Adds
  <2> QED  BY <2>1, <2>3 DEF HintsClose
<1>11. Unannounced(f)
  <2> SUFFICES ASSUME NEW e \in f.events, NEW a \in f.attention, e.kind = "input",
                      a.session = e.session, a.ref = e.ref, a.resolved
               PROVE  e.cancelled /\ ~ \E j \in f.outbox : j.event = e.cursor
    BY DEF Unannounced
  <2>1. a \in d.attention
    BY DEF Adds
  <2>2. ~ AnnouncedBy(e, ev)
    BY <2>1 DEF AnnouncedBy
  <2>3. e \in d.events
    BY <2>2 DEF Adds
  <2>4. e.cancelled /\ ~ \E j \in d.outbox : j.event = e.cursor
    BY <2>1, <2>3 DEF Sound, Unannounced
  <2>5. \A j \in f.outbox \ d.outbox : j.event # e.cursor
    BY <1>3, <2>2
  <2> QED  BY <2>4, <2>5
<1> QED  BY <1>4, <1>5, <1>6, <1>7, <1>8, <1>9, <1>10, <1>11 DEF Sound

-----------------------------------------------------------------------------
(* Cutting and cancelling *)

LEMMA CancelSize ==
  ASSUME NEW E, IsFiniteSet(E), NEW C \in SUBSET E
  PROVE  IsFiniteSet(Cancel(E, C)) /\ Cardinality(Cancel(E, C)) <= Cardinality(E)
<1> DEFINE h == [e \in E |-> IF e \in C THEN [e EXCEPT !.cancelled = TRUE] ELSE e]
<1>1. h \in [E -> Cancel(E, C)]
  BY DEF Cancel
<1>2. \A x \in Cancel(E, C) : \E e \in E : h[e] = x
  BY DEF Cancel
<1>3. h \in Surjection(E, Cancel(E, C))
  BY <1>1, <1>2 DEF Surjection
<1> QED  BY <1>3, FS_Surjection

LEMMA CancelEvents ==
  ASSUME NEW E \in SUBSET Event, NEW C \in SUBSET E,
         \A e, f \in E : e.cursor = f.cursor => e = f
  PROVE  /\ \A x \in Cancel(E, C) : \E e \in E :
              SameEvent(e, x) /\ (e \in C => x.cancelled)
         /\ \A e \in E : \E x \in Cancel(E, C) : SameEvent(e, x)
         /\ \A x, y \in Cancel(E, C) : x.cursor = y.cursor => x = y
<1> DEFINE over(e) == [e EXCEPT !.cancelled = TRUE]
<1>1. \A e \in E : SameEvent(e, e) /\ SameEvent(e, over(e)) /\ over(e).cancelled
                   /\ over(e).cursor = e.cursor
  BY DEF SameEvent, Event
<1>2. Cancel(E, C) = (E \ C) \cup {over(e) : e \in C}
  BY DEF Cancel
<1>3. ASSUME NEW x \in Cancel(E, C)
      PROVE  \E e \in E : \/ x = e /\ e \notin C
                          \/ x = over(e) /\ e \in C
  <2>1. CASE x \in E \ C
    BY <2>1
  <2>2. CASE x \in {over(e) : e \in C}
    BY <2>2
  <2> QED  BY <1>2, <2>1, <2>2
<1> HIDE DEF over
<1>4. \A x, y \in Cancel(E, C) : x.cursor = y.cursor => x = y
  BY <1>1, <1>3
<1>5. \A e \in E : \E x \in Cancel(E, C) : SameEvent(e, x)
  BY <1>1, <1>2
<1> QED  BY <1>1, <1>3, <1>4, <1>5

LEMMA PruneTrims ==
  ASSUME NEW d, Consistent(d), Sound(d), NEW now
  PROVE  Trims(d, Prune(d, now))
<1> DEFINE f == Prune(d, now)
           kept == NewestEvents({e \in d.events : e.expires > now})
<1>1. /\ f.reg = d.reg /\ f.nonces = d.nonces /\ f.cursor = d.cursor
      /\ f.events = kept /\ kept \subseteq d.events
      /\ f.outbox = {j \in d.outbox : \E e \in kept : e.cursor = j.event}
      /\ f.attention \subseteq d.attention
  BY DEF Prune, Consistent, DB, NewestEvents, NewestAttention
<1> HIDE DEF f, kept
<1>2. IsFiniteSet(f.events)
  BY <1>1, FS_Subset DEF Sound, Finite
<1> QED  BY <1>1, <1>2 DEF Trims, SameEvent, Sound, EventsKeyed, f

LEMMA CancelChallengesFacts ==
  ASSUME NEW d \in DB, EventsKeyed(d), IsFiniteSet(d.events),
         NEW i \in Installation
  PROVE  LET f == CancelChallenges(d, i)
         IN  /\ IsFiniteSet(f.events)
             /\ f.reg = d.reg /\ f.nonces = d.nonces /\ f.cursor = d.cursor
             /\ f.outbox = d.outbox /\ f.attention = d.attention
             /\ \A e \in f.events : \E c \in d.events : SameEvent(c, e)
             /\ \A c \in d.events : \E e \in f.events : SameEvent(c, e)
             /\ \A e, c \in f.events : e.cursor = c.cursor => e = c
<1> DEFINE f == CancelChallenges(d, i)
<1>1. /\ f.reg = d.reg /\ f.nonces = d.nonces /\ f.cursor = d.cursor
      /\ f.outbox = d.outbox /\ f.attention = d.attention
      /\ f.events = Cancel(d.events, Challenges(d, i))
  BY DEF CancelChallenges, DB
<1>2. /\ d.events \in SUBSET Event /\ Challenges(d, i) \in SUBSET d.events
      /\ \A e, c \in d.events : e.cursor = c.cursor => e = c
  BY DEF Challenges, DB, EventsKeyed
<1> HIDE DEF f
<1> QED  BY <1>1, <1>2, CancelEvents, CancelSize DEF f

LEMMA CancelAttentionTrims ==
  ASSUME NEW d, Consistent(d), Sound(d), NEW s, NEW refs
  PROVE  LET f == CancelAttention(d, s, refs)
         IN  /\ Trims(d, f)
             /\ f.attention = d.attention
             /\ \A e \in f.events :
                  e.kind = "input" /\ e.session = s /\ e.ref \in refs =>
                    e.cancelled /\ ~ \E j \in f.outbox : j.event = e.cursor
<1> DEFINE inputs == {e \in d.events : /\ e.kind = "input"
                                       /\ e.session = s
                                       /\ e.ref \in refs}
           events == Cancel(d.events, inputs)
           f == CancelAttention(d, s, refs)
<1>1. /\ f.reg = d.reg /\ f.nonces = d.nonces /\ f.cursor = d.cursor
      /\ f.attention = d.attention /\ f.events = events
      /\ f.outbox = {j \in d.outbox : ~ \E e \in events :
                                         e.cursor = j.event /\ e.cancelled}
  BY DEF CancelAttention, Consistent, DB
<1>2. /\ d.events \in SUBSET Event /\ inputs \in SUBSET d.events
      /\ \A e, c \in d.events : e.cursor = c.cursor => e = c
  BY DEF Consistent, DB, Sound, EventsKeyed
<1>3. /\ \A x \in events : \E e \in d.events :
              SameEvent(e, x) /\ (e \in inputs => x.cancelled)
      /\ \A e \in d.events : \E x \in events : SameEvent(e, x)
      /\ \A x, y \in events : x.cursor = y.cursor => x = y
  <2> HIDE DEF inputs
  <2> QED  BY <1>2, CancelEvents
<1>4. \A e \in events : e.kind = "input" /\ e.session = s /\ e.ref \in refs =>
        e.cancelled
  BY <1>3 DEF SameEvent
<1> HIDE DEF f, events, inputs
<1>5. \A j \in f.outbox : \E e \in f.events : e.cursor = j.event
  BY <1>1, <1>3 DEF Sound, HintsKeyed, SameEvent
<1>6. Trims(d, f)
  <2>1. IsFiniteSet(f.events)
    BY <1>1, <1>2, CancelSize DEF Sound, Finite, events
  <2> QED  BY <1>1, <1>3, <1>5, <2>1 DEF Trims
<1>7. \A e \in f.events : e.kind = "input" /\ e.session = s /\ e.ref \in refs =>
        e.cancelled /\ ~ \E j \in f.outbox : j.event = e.cursor
  BY <1>1, <1>4
<1> QED  BY <1>1, <1>6, <1>7 DEF f

-----------------------------------------------------------------------------
(* Authorities *)

\* One registration gets the row x, which is not pending, and loses its hints;
\* its challenges may be cancelled.
LEMMA EndsOne ==
  ASSUME NEW d, Consistent(d), Sound(d), NEW i \in Installation, NEW x, NEW f,
         x.status \notin {"absent", "pending"}, x.challenge = 0,
         x.generation \in Nat \ {0}, x.generation >= d.reg[i].generation,
         f.reg = [d.reg EXCEPT ![i] = x], f.nonces = d.nonces,
         f.cursor = d.cursor, f.attention = d.attention,
         f.outbox = {j \in d.outbox : j.installation # i},
         IsFiniteSet(f.events),
         \A e \in f.events : \E c \in d.events : SameEvent(c, e),
         \A c \in d.events : \E e \in f.events : SameEvent(c, e),
         \A e, c \in f.events : e.cursor = c.cursor => e = c
  PROVE  Ends(d, f, {i})
<1>1. d.reg \in [Installation -> Row]
  BY DEF Consistent, DB
<1>2. f.reg[i] = x /\ \A k \in Installation \ {i} : f.reg[k] = d.reg[k]
  BY <1>1
<1>3. RowsKeyed(f)
  BY <1>2 DEF Sound, RowsKeyed, Exists
<1>4. f.outbox = {j \in d.outbox : j.installation \notin {i}}
  OBVIOUS
<1> QED  BY <1>2, <1>3, <1>4 DEF Ends

\* DropHints touches nothing but the queue.
LEMMA DropHintsFacts ==
  ASSUME NEW d \in DB, NEW i
  PROVE  LET f == DropHints(d, i)
         IN  /\ f \in DB
             /\ f.reg = d.reg /\ f.nonces = d.nonces /\ f.cursor = d.cursor
             /\ f.events = d.events /\ f.attention = d.attention
             /\ f.outbox = {j \in d.outbox : j.installation # i}
BY DEF DropHints, DB

RevokedFrom(row) ==
  [row EXCEPT !.generation = @ + 1, !.status = "revoked",
              !.challenge = 0, !.endpoint = None]

LEMMA RevokeInEnds ==
  ASSUME NEW d, Consistent(d), Sound(d), NEW i \in Installation
  PROVE  LET f == RevokeIn(d, i)
         IN  /\ Ends(d, f, {i})
             /\ f.reg = [d.reg EXCEPT ![i] = RevokedFrom(d.reg[i])]
             /\ f.nonces = d.nonces
<1> DEFINE x == RevokedFrom(d.reg[i])
           e == DropHints(d, i)
           g == [e EXCEPT !.reg = [@ EXCEPT ![i] = x]]
           f == RevokeIn(d, i)
<1>1. d \in DB /\ d.reg[i] \in Row
  BY DEF Consistent, DB
<1>2. /\ x \in Row /\ x.status = "revoked" /\ x.challenge = 0
      /\ x.generation = d.reg[i].generation + 1
  BY <1>1, RevokedRow DEF Row, RevokedFrom
<1>3. x.generation \in Nat \ {0} /\ x.generation >= d.reg[i].generation
  BY <1>1, <1>2 DEF Row
<1>4. /\ e \in DB /\ e.reg = d.reg /\ e.nonces = d.nonces /\ e.cursor = d.cursor
      /\ e.events = d.events /\ e.attention = d.attention
      /\ e.outbox = {j \in d.outbox : j.installation # i}
  BY <1>1, DropHintsFacts
<1> HIDE DEF x, e
<1>5. /\ g.reg = [d.reg EXCEPT ![i] = x] /\ g.nonces = d.nonces
      /\ g.cursor = d.cursor /\ g.events = d.events /\ g.attention = d.attention
      /\ g.outbox = {j \in d.outbox : j.installation # i}
      /\ g \in DB
  BY <1>2, <1>4 DEF DB
<1>6. f = CancelChallenges(g, i)
  BY DEF RevokeIn, e, x, RevokedFrom
<1> HIDE DEF g, f
<1>7. EventsKeyed(g) /\ IsFiniteSet(g.events)
  BY <1>5 DEF Sound, EventsKeyed, Finite
<1>8. /\ IsFiniteSet(f.events)
      /\ f.reg = g.reg /\ f.nonces = g.nonces /\ f.cursor = g.cursor
      /\ f.outbox = g.outbox /\ f.attention = g.attention
      /\ \A y \in f.events : \E c \in g.events : SameEvent(c, y)
      /\ \A c \in g.events : \E y \in f.events : SameEvent(c, y)
      /\ \A y, c \in f.events : y.cursor = c.cursor => y = c
  BY <1>5, <1>6, <1>7, CancelChallengesFacts
<1>9. Ends(d, f, {i})
  BY <1>2, <1>3, <1>5, <1>8, EndsOne
<1> QED  BY <1>5, <1>8, <1>9 DEF f, x

LEMMA ConfirmEnds ==
  ASSUME NEW d, Consistent(d), Sound(d), NEW i \in Installation,
         d.reg[i].status = "pending"
  PROVE  LET f == Confirm(d, i)
         IN  /\ Ends(d, f, {i})
             /\ f.reg = [d.reg EXCEPT ![i] =
                           [d.reg[i] EXCEPT !.status = "active", !.challenge = 0]]
             /\ f.nonces = d.nonces /\ f.events = d.events
<1> DEFINE x == [d.reg[i] EXCEPT !.status = "active", !.challenge = 0]
           e == DropHints(d, i)
           f == Confirm(d, i)
<1>1. d \in DB /\ d.reg[i] \in Row
  BY DEF Consistent, DB
<1>2. /\ x.status = "active" /\ x.challenge = 0
      /\ x.generation = d.reg[i].generation
  BY <1>1 DEF Row
<1>3. x.generation \in Nat \ {0} /\ x.generation >= d.reg[i].generation
  BY <1>1, <1>2 DEF Row, Sound, RowsKeyed, Exists
<1>4. /\ e \in DB /\ e.reg = d.reg /\ e.nonces = d.nonces /\ e.cursor = d.cursor
      /\ e.events = d.events /\ e.attention = d.attention
      /\ e.outbox = {j \in d.outbox : j.installation # i}
  BY <1>1, DropHintsFacts
<1>5. f = [e EXCEPT !.reg[i].status = "active", !.reg[i].challenge = 0]
  BY DEF Confirm
<1> HIDE DEF e, f
<1>6. /\ f.reg = [d.reg EXCEPT ![i] = x]
      /\ f.nonces = d.nonces /\ f.cursor = d.cursor
      /\ f.events = d.events /\ f.attention = d.attention
      /\ f.outbox = {j \in d.outbox : j.installation # i}
  <2>1. /\ f.nonces = e.nonces /\ f.cursor = e.cursor /\ f.events = e.events
        /\ f.attention = e.attention /\ f.outbox = e.outbox
    <3>1. f = [e EXCEPT !.reg = f.reg]
      BY <1>4, <1>5 DEF DB
    <3> QED  BY <1>4, <3>1 DEF DB
  <2>2. /\ f.reg[i] = [e.reg[i] EXCEPT !.status = "active", !.challenge = 0]
        /\ f.reg = [e.reg EXCEPT ![i] = f.reg[i]]
    BY <1>4, <1>5 DEF DB
  <2> QED  BY <1>4, <2>1, <2>2
<1> HIDE DEF x
<1>7. \A c \in d.events : SameEvent(c, c)
  BY DEF SameEvent
<1>8. Ends(d, f, {i})
  <2>1. IsFiniteSet(d.events) /\ \A y, c \in d.events : y.cursor = c.cursor => y = c
    BY DEF Sound, EventsKeyed, Finite
  <2> QED  BY <1>2, <1>3, <1>6, <1>7, <2>1, EndsOne
<1> QED  BY <1>6, <1>8 DEF x, f

LEMMA RevokeEnds ==
  ASSUME NEW d, Consistent(d), Sound(d), NEW p \in Principal, NEW i \in Installation
  PROVE  LET f == Revoke(d, p, i)
         IN  \/ f = d
             \/ /\ Ends(d, f, {i})
                /\ f.reg = [d.reg EXCEPT ![i] = f.reg[i]]
                /\ f.reg[i].status = "revoked"
                /\ f.reg[i].generation = d.reg[i].generation + 1
                /\ f.reg[i].nonce = d.reg[i].nonce
                /\ f.reg[i].revision = d.reg[i].revision
                /\ Exists(d, i) => f.reg[i].owner = d.reg[i].owner
                /\ d.reg[i].status # "revoked"
                /\ f.nonces = d.nonces
<1> DEFINE f == Revoke(d, p, i)
<1>1. d \in DB /\ d.reg[i] \in Row /\ d.reg \in [Installation -> Row]
  BY DEF Consistent, DB
<1>2. CASE Exists(d, i) /\ d.reg[i].status # "revoked"
  <2>1. f = RevokeIn(d, i)
    BY <1>2 DEF Revoke
  <2> DEFINE x == RevokedFrom(d.reg[i])
  <2> HIDE DEF f
  <2>2. /\ Ends(d, f, {i}) /\ f.reg = [d.reg EXCEPT ![i] = x] /\ f.nonces = d.nonces
    BY <2>1, RevokeInEnds
  <2>3. /\ x.generation = d.reg[i].generation + 1 /\ x.nonce = d.reg[i].nonce
        /\ x.revision = d.reg[i].revision /\ x.owner = d.reg[i].owner
        /\ x.status = "revoked" /\ d.reg[i].generation \in Nat
    BY <1>1 DEF Row, RevokedFrom
  <2> HIDE DEF x
  <2>4. f.reg[i] = x /\ f.reg = [d.reg EXCEPT ![i] = f.reg[i]]
    BY <1>1, <2>2
  <2> QED  BY <1>2, <2>2, <2>3, <2>4 DEF f
<1>3. CASE ~ Exists(d, i)
  <2> DEFINE x == [NoRow EXCEPT !.owner = p, !.generation = 1, !.status = "revoked"]
  <2>1. f = [d EXCEPT !.reg[i] = x]
    BY <1>3 DEF Revoke
  <2>2. d.reg[i] = NoRow
    BY <1>3 DEF Sound, RowsKeyed
  <2>3. /\ x.generation = 1 /\ x.nonce = NoRow.nonce /\ x.challenge = 0
        /\ x.revision = NoRow.revision /\ x.status = "revoked"
        /\ NoRow.generation = 0 /\ NoRow.status = "absent"
    BY DEF NoRow
  <2> HIDE DEF x, f
  <2>4. /\ f.reg = [d.reg EXCEPT ![i] = x] /\ f.nonces = d.nonces
        /\ f.cursor = d.cursor /\ f.events = d.events
        /\ f.attention = d.attention /\ f.outbox = d.outbox
    BY <1>1, <2>1 DEF DB
  <2>5. \A j \in d.outbox : j.installation # i
    BY <2>2, <2>3 DEF Consistent, QueueCurrent, HintFits
  <2>6. f.outbox = {j \in d.outbox : j.installation # i}
    BY <2>4, <2>5
  <2>7. \A c \in d.events : SameEvent(c, c)
    BY DEF SameEvent
  <2>8. \A y, c \in d.events : y.cursor = c.cursor => y = c
    BY DEF Sound, EventsKeyed
  <2>9. Ends(d, f, {i})
    <3>1. /\ IsFiniteSet(f.events)
          /\ \A e \in f.events : \E c \in d.events : SameEvent(c, e)
          /\ \A c \in d.events : \E e \in f.events : SameEvent(c, e)
          /\ \A e, c \in f.events : e.cursor = c.cursor => e = c
      BY <2>4, <2>7, <2>8 DEF Sound, Finite
    <3>2. x.status \notin {"absent", "pending"} /\ x.generation \in Nat \ {0}
          /\ x.generation >= d.reg[i].generation
      BY <2>2, <2>3
    <3> QED  BY <2>3, <2>4, <2>6, <3>1, <3>2, EndsOne
  <2>10. f.reg[i] = x /\ f.reg = [d.reg EXCEPT ![i] = f.reg[i]]
    BY <1>1, <2>4
  <2> QED  BY <1>3, <2>2, <2>3, <2>4, <2>9, <2>10 DEF f
<1>4. CASE Exists(d, i) /\ d.reg[i].status = "revoked"
  BY <1>4 DEF Revoke
<1> QED  BY <1>2, <1>3, <1>4

MigratedRow(row) ==
  [row EXCEPT !.generation = @ + 1, !.status = "upgrade_required",
              !.challenge = 0, !.endpoint = None]

LEMMA MigrateEnds ==
  ASSUME NEW d, Consistent(d), Sound(d)
  PROVE  LET f == Migrate(d)
             I == {i \in Installation : Legacy(d, i)}
         IN  /\ Ends(d, f, I)
             /\ f.reg = [i \in Installation |->
                           IF i \in I THEN MigratedRow(d.reg[i]) ELSE d.reg[i]]
             /\ f.nonces = d.nonces \cup {<<i, d.reg[i].nonce>> :
                             i \in {k \in Installation : d.reg[k].nonce # None}}
<1> DEFINE I == {i \in Installation : Legacy(d, i)}
           reg == [i \in Installation |->
                     IF i \in I THEN MigratedRow(d.reg[i]) ELSE d.reg[i]]
           outbox == {j \in d.outbox : ~ Legacy(d, j.installation)}
           old == UNION {Challenges(d, i) : i \in {k \in Installation : Legacy(d, k)}}
           events == Cancel(d.events, old)
           nonces == d.nonces \cup {<<i, d.reg[i].nonce>> :
                        i \in {k \in Installation : d.reg[k].nonce # None}}
           f == Migrate(d)
<1>1. d \in DB /\ \A i \in Installation : d.reg[i] \in Row
  BY DEF Consistent, DB
<1>2. \A i \in Installation :
        [RevokeIn(d, i).reg[i] EXCEPT !.status = "upgrade_required"]
          = MigratedRow(d.reg[i])
  <2> SUFFICES ASSUME NEW i \in Installation
               PROVE  [RevokeIn(d, i).reg[i] EXCEPT !.status = "upgrade_required"]
                        = MigratedRow(d.reg[i])
    OBVIOUS
  <2>1. RevokeIn(d, i).reg = [d.reg EXCEPT ![i] = RevokedFrom(d.reg[i])]
    BY RevokeInEnds
  <2>2. RevokeIn(d, i).reg[i] = RevokedFrom(d.reg[i])
    BY <1>1, <2>1 DEF DB
  <2> QED  BY <1>1, <2>2 DEF MigratedRow, RevokedFrom, Row
<1>3. [i \in Installation |->
         IF Legacy(d, i)
         THEN [RevokeIn(d, i).reg[i] EXCEPT !.status = "upgrade_required"]
         ELSE d.reg[i]] = reg
  BY <1>2
<1>4. f = [d EXCEPT !.reg = [i \in Installation |->
                IF Legacy(d, i)
                THEN [RevokeIn(d, i).reg[i] EXCEPT !.status = "upgrade_required"]
                ELSE d.reg[i]],
                    !.outbox = outbox, !.events = events, !.nonces = nonces]
  BY DEF Migrate
<1>5. f = [d EXCEPT !.reg = reg, !.outbox = outbox, !.events = events,
                    !.nonces = nonces]
  BY <1>3, <1>4
<1>6. /\ IsFiniteSet(events)
      /\ \A x \in events : \E e \in d.events : SameEvent(e, x)
      /\ \A e \in d.events : \E x \in events : SameEvent(e, x)
      /\ \A x, y \in events : x.cursor = y.cursor => x = y
  <2>1. /\ d.events \in SUBSET Event /\ old \in SUBSET d.events
        /\ \A e, c \in d.events : e.cursor = c.cursor => e = c
        /\ IsFiniteSet(d.events)
    BY <1>1 DEF DB, Challenges, Sound, EventsKeyed, Finite
  <2> HIDE DEF old
  <2> QED  BY <2>1, CancelEvents, CancelSize
<1>7. outbox = {j \in d.outbox : j.installation \notin I}
  BY <1>1 DEF DB, Job
<1>8. \A i \in I : /\ reg[i].status = "upgrade_required"
                   /\ reg[i].challenge = 0
                   /\ reg[i].generation = d.reg[i].generation + 1
                   /\ d.reg[i].generation \in Nat
  BY <1>1 DEF MigratedRow, Row
<1>9. \A i \in Installation \ I : reg[i] = d.reg[i]
  OBVIOUS
<1>10. \A i \in I : Exists(d, i)
  BY DEF Legacy, Exists
<1>11. \A i \in Installation : \A n : <<i, n>> \in nonces /\ <<i, n>> \notin d.nonces =>
         n = d.reg[i].nonce /\ d.reg[i].nonce # None
  OBVIOUS
<1> HIDE DEF reg, outbox, events, nonces, f, I
<1>12. /\ f.reg = reg /\ f.outbox = outbox /\ f.events = events /\ f.nonces = nonces
       /\ f.cursor = d.cursor /\ f.attention = d.attention
  BY <1>1, <1>5 DEF DB
<1>13. RowsKeyed(f)
  <2> SUFFICES ASSUME NEW i \in Installation
               PROVE  IF Exists(f, i)
                      THEN f.reg[i].generation # 0
                      ELSE /\ f.reg[i] = NoRow
                           /\ \A n \in Nonce : <<i, n>> \notin f.nonces
    BY DEF RowsKeyed
  <2>1. CASE i \in I
    BY <2>1, <1>8, <1>12 DEF Exists
  <2>2. CASE i \notin I
    <3>1. f.reg[i] = d.reg[i]
      BY <2>2, <1>9, <1>12
    <3>2. NoRow.nonce = None
      BY DEF NoRow
    <3> QED  BY <3>1, <3>2, <1>11, <1>12 DEF Sound, RowsKeyed, Exists
  <2> QED  BY <2>1, <2>2
<1>14. \A i \in I : f.reg[i].generation >= d.reg[i].generation
  BY <1>8, <1>12
<1>15. Ends(d, f, I)
  BY <1>6, <1>7, <1>8, <1>9, <1>12, <1>13, <1>14 DEF Ends
<1> QED  BY <1>12, <1>15 DEF f, I, reg, nonces

\* What Store.put writes before it prunes.
LEMMA ProposedRenews ==
  ASSUME NEW d, Consistent(d), Sound(d), NEW p \in Principal,
         NEW i \in Installation, NEW body \in Body, NEW now \in Nat
  PROVE  LET f == Proposed(d, p, i, body, now)
         IN  /\ Renews(d, f, i)
             /\ f.reg[i] = PendingRow(d, p, i, body, now)
<1> DEFINE row == PendingRow(d, p, i, body, now)
           g == DropHints(d, i)
           e == CancelChallenges(g, i)
           hint == NewJob(Top(JobIds(e)) + 1, d.cursor + 1, i, row.generation,
                          "challenge", now)
           ev == ChallengeEvent(d, p, i, now)
           f == Proposed(d, p, i, body, now)
<1>1. d \in DB /\ d.reg \in [Installation -> Row] /\ d.cursor \in Nat
  BY DEF Consistent, DB
<1>2. /\ g \in DB /\ g.reg = d.reg /\ g.nonces = d.nonces /\ g.cursor = d.cursor
      /\ g.events = d.events /\ g.attention = d.attention
      /\ g.outbox = {j \in d.outbox : j.installation # i}
  BY <1>1, DropHintsFacts
<1>3. EventsKeyed(g) /\ IsFiniteSet(g.events)
  BY <1>2 DEF Sound, EventsKeyed, Finite
<1>4. Consistent(e)
  BY DropHintsConsistent, CancelChallengesConsistent
<1> HIDE DEF g
<1>5. /\ IsFiniteSet(e.events)
      /\ e.reg = d.reg /\ e.nonces = d.nonces /\ e.cursor = d.cursor
      /\ e.outbox = {j \in d.outbox : j.installation # i}
      /\ e.attention = d.attention
      /\ \A x \in e.events : \E c \in d.events : SameEvent(c, x)
      /\ \A c \in d.events : \E x \in e.events : SameEvent(c, x)
      /\ \A x, c \in e.events : x.cursor = c.cursor => x = c
  BY <1>2, <1>3, CancelChallengesFacts
<1>6. /\ row.status = "pending" /\ row.challenge = d.cursor + 1
      /\ row.generation = d.reg[i].generation + 1 /\ row.nonce = body.nonce
  BY DEF PendingRow
<1>7. ev.cursor = d.cursor + 1 /\ ev.kind = "challenge"
  BY DEF ChallengeEvent
<1>8. /\ hint.id = Top(JobIds(e)) + 1
      /\ hint.event = d.cursor + 1 /\ hint.installation = i
      /\ hint.generation = row.generation /\ hint.hint = "challenge"
      /\ hint.attempts = 0 /\ hint.token = None /\ ~ hint.done
  BY DEF NewJob
<1>9. f = [e EXCEPT !.reg = [@ EXCEPT ![i] = row],
                    !.nonces = @ \cup {<<i, body.nonce>>},
                    !.events = @ \cup {ev},
                    !.cursor = @ + 1,
                    !.outbox = @ \cup {hint}]
  BY DEF Proposed, g
<1> HIDE DEF f, e, row, ev, hint
<1>10. /\ f.reg = [d.reg EXCEPT ![i] = row]
       /\ f.nonces = d.nonces \cup {<<i, body.nonce>>}
       /\ f.events = e.events \cup {ev} /\ f.cursor = d.cursor + 1
       /\ f.outbox = e.outbox \cup {hint} /\ f.attention = d.attention
  BY <1>4, <1>5, <1>9 DEF Consistent, DB
<1>11. f.reg[i] = row /\ f.reg = [d.reg EXCEPT ![i] = f.reg[i]]
  BY <1>1, <1>10<1>12. f.nonces = d.nonces \cup {<<i, f.reg[i].nonce>>}
  BY <1>6, <1>10, <1>11
<1>13. /\ IsFiniteSet(f.events)
       /\ \A x \in f.events : \/ x.cursor = f.cursor /\ x.kind = "challenge"
                              \/ \E c \in d.events : SameEvent(c, x)
       /\ \A c \in d.events : \E x \in f.events : SameEvent(c, x)
       /\ \E x \in f.events : x.cursor = f.cursor
  BY <1>5, <1>7, <1>10, FS_AddElement
<1>14. \A x, c \in f.events : x.cursor = c.cursor => x = c
  <2>1. \A x \in e.events : x.cursor # ev.cursor
    <3>1. \A c \in d.events : c.cursor \in Nat /\ c.cursor <= d.cursor
      BY <1>1 DEF Sound, EventsKeyed, DB, Event
    <3>2. \A c \in d.events : c.cursor # d.cursor + 1
      BY <3>1, <1>1
    <3> QED  BY <1>5, <1>7, <3>2 DEF SameEvent
  <2> QED  BY <1>5, <1>10, <2>1
<1>15. \A j \in d.outbox : j.installation # i => j.id # hint.id
  <2>1. JobIds(e) \in SUBSET Nat /\ IsFiniteSet(JobIds(e))
    <3> DEFINE h == [j \in e.outbox |-> j.id]
    <3>1. h \in Surjection(e.outbox, JobIds(e))
      BY DEF Surjection, JobIds
    <3>2. IsFiniteSet(e.outbox)
      BY <1>5, FS_Subset DEF Sound, Finite
    <3>3. IsFiniteSet(JobIds(e))
      BY <3>1, <3>2, FS_Surjection
    <3>4. \A j \in e.outbox : j.id \in Nat
      BY <1>4 DEF Consistent, DB, Job
    <3> QED  BY <3>3, <3>4 DEF JobIds
  <2>2. Top(JobIds(e)) \in Nat /\ \A m \in JobIds(e) : m <= Top(JobIds(e))
    BY <2>1, TopAbove
  <2>3. \A m \in JobIds(e) : m # hint.id
    BY <1>8, <2>1, <2>2
  <2>4. \A j \in e.outbox : j.id \in JobIds(e)
    BY DEF JobIds
  <2> QED  BY <1>5, <2>3, <2>4
<1>16. Challenge(f, i, hint)
  BY <1>8, <1>10, <1>11 DEF Challenge
<1>17. Renews(d, f, i)
  <2>1. f.outbox = {j \in d.outbox : j.installation # i} \cup {hint}
    BY <1>5, <1>10
  <2> QED  BY <1>6, <1>10, <1>11, <1>12, <1>13, <1>14, <1>15, <1>16, <2>1 DEF Renews
<1> QED  BY <1>11, <1>17 DEF f, row

-----------------------------------------------------------------------------
(* Delivery *)

\* A row that is none of the others' takes the place of one of them.
LEMMA ReplaceJobMoves ==
  ASSUME NEW d, Consistent(d), Sound(d), NEW j \in d.outbox, NEW k, SameRow(j, k)
  PROVE  LET f == ReplaceJob(d, j, k)
         IN  Moves(d, f) /\ f.outbox = (d.outbox \ {j}) \cup {k}
<1> DEFINE f == ReplaceJob(d, j, k)
<1>1. /\ f.reg = d.reg /\ f.nonces = d.nonces /\ f.cursor = d.cursor
      /\ f.events = d.events /\ f.attention = d.attention
      /\ f.outbox = (d.outbox \ {j}) \cup {k}
  BY DEF ReplaceJob, Consistent, DB
<1> HIDE DEF f
<1>2. \A x \in d.outbox : SameRow(x, x)
  <2>1. \A x \in d.outbox : x.attempts \in Nat
    BY DEF Consistent, DB, Job
  <2>2. \A x \in d.outbox : (x.done <=> x.hint = "") /\ x.attempts <= MaxAttempts
    BY DEF Sound, HintsClose
  <2>3. \A x \in d.outbox : x.attempts >= x.attempts
    BY <2>1
  <2> QED  BY <2>2, <2>3 DEF SameRow, SameKey
<1>3. k.id = j.id
  BY DEF SameRow
<1>4. \A x, y \in f.outbox : x.id = y.id => x = y
  BY <1>1, <1>3 DEF Sound, HintsKeyed
<1>5. IsFiniteSet(f.outbox)
  <2>1. IsFiniteSet(d.outbox \ {j})
    BY FS_Subset DEF Sound, Finite
  <2> QED  BY <1>1, <2>1, FS_AddElement
<1>6. \A x \in f.outbox : \E y \in d.outbox : SameRow(y, x)
  BY <1>1, <1>2
<1>7. \A y \in d.outbox : \E x \in f.outbox : SameRow(y, x)
  BY <1>1, <1>2
<1> QED  BY <1>1, <1>4, <1>5, <1>6, <1>7 DEF Moves, f

LEMMA AttemptsType ==
  \A j \in Job : /\ j.attempts \in Nat /\ j.attempts >= j.attempts
                 /\ j.installation \in Installation
<1>1. \A j \in Job : j.attempts \in Nat /\ j.installation \in Installation
  BY DEF Job
<1>2. \A n \in Nat : n >= n
  OBVIOUS
<1> QED  BY <1>1, <1>2

\* A row that is closed or given back.
LEMMA LandedRow ==
  ASSUME NEW j \in Job, j.attempts <= MaxAttempts, j.done <=> j.hint = ""
  PROVE  /\ SameRow(j, [j EXCEPT !.done = TRUE, !.hint = ""])
         /\ SameRow(j, [j EXCEPT !.done = TRUE, !.hint = "", !.token = None,
                                 !.until = 0])
         /\ \A n : SameRow(j, [j EXCEPT !.token = None, !.until = 0, !.next = n])
<1> DEFINE closed == [j EXCEPT !.done = TRUE, !.hint = ""]
           settled == [j EXCEPT !.done = TRUE, !.hint = "", !.token = None,
                                !.until = 0]
           given(n) == [j EXCEPT !.token = None, !.until = 0, !.next = n]
<1>1. j.attempts >= j.attempts
  BY AttemptsType
<1>2. \A x \in {closed, settled} :
        /\ x.id = j.id /\ x.event = j.event /\ x.installation = j.installation
        /\ x.generation = j.generation /\ x.attempts = j.attempts
        /\ x.hint = "" /\ x.done = TRUE
  BY ZenonT(40) DEF Job
<1>3. \A n : /\ given(n).id = j.id /\ given(n).event = j.event
             /\ given(n).installation = j.installation
             /\ given(n).generation = j.generation
             /\ given(n).attempts = j.attempts
             /\ given(n).hint = j.hint /\ given(n).done = j.done
  BY DEF Job
<1>4. \A x \in {closed, settled} : SameRow(j, x)
  <2> HIDE DEF closed, settled
  <2> QED  BY <1>1, <1>2 DEF SameRow, SameKey
<1>5. \A n : SameRow(j, given(n))
  <2> HIDE DEF given
  <2> QED  BY <1>1, <1>3 DEF SameRow, SameKey
<1> QED  BY <1>4, <1>5

LEMMA RowFacts ==
  ASSUME NEW d, Consistent(d), Sound(d), NEW j \in d.outbox
  PROVE  /\ j \in Job /\ j.attempts <= MaxAttempts /\ (j.done <=> j.hint = "")
         /\ j.installation \in Installation
         /\ SameRow(j, j)
<1>1. j \in Job
  BY DEF Consistent, DB
<1>2. j.attempts <= MaxAttempts /\ (j.done <=> j.hint = "")
  BY DEF Sound, HintsClose
<1>3. j.installation \in Installation /\ j.attempts >= j.attempts
  BY <1>1, AttemptsType
<1> QED  BY <1>1, <1>2, <1>3 DEF SameRow, SameKey

LEMMA DropJobMoves ==
  ASSUME NEW d, Consistent(d), Sound(d), NEW j \in d.outbox
  PROVE  Moves(d, DropJob(d, j)) /\ Kept(d, DropJob(d, j))
<1> DEFINE k == [j EXCEPT !.done = TRUE, !.hint = ""]
           f == ReplaceJob(d, j, k)
<1>1. SameRow(j, k) /\ k.done
  BY RowFacts, LandedRow DEF Job
<1> HIDE DEF k
<1>2. Moves(d, f) /\ f.outbox = (d.outbox \ {j}) \cup {k}
  BY <1>1, ReplaceJobMoves
<1>3. DropJob(d, j) = f
  BY DEF DropJob, k
<1> HIDE DEF f
<1>4. Kept(d, d)
  BY KeptSame
<1>5. \A x \in f.outbox \ d.outbox : x.done
  BY <1>1, <1>2
<1>6. Kept(d, f)
  BY <1>2, <1>4, <1>5 DEF Kept, Moves
<1> QED  BY <1>2, <1>3, <1>6

LEMMA SettleJobMoves ==
  ASSUME NEW d, Consistent(d), Sound(d), NEW j \in d.outbox
  PROVE  LET f == SettleJob(d, j)
         IN  /\ Moves(d, f) /\ Kept(d, f)
             /\ \A x \in f.outbox : x.id = j.id => x.done
<1> DEFINE k == [j EXCEPT !.done = TRUE, !.hint = "", !.token = None, !.until = 0]
           f == SettleJob(d, j)
<1>0. j \in Job
  BY RowFacts
<1>1. SameRow(j, k) /\ k.done
  BY <1>0, RowFacts, LandedRow DEF Job
<1>2. f = ReplaceJob(d, j, k)
  BY DEF SettleJob
<1> HIDE DEF k, f
<1>3. Moves(d, f) /\ f.outbox = (d.outbox \ {j}) \cup {k}
  BY <1>1, <1>2, ReplaceJobMoves
<1>4. Kept(d, d)
  BY KeptSame
<1>5. \A x \in f.outbox \ d.outbox : x.done
  BY <1>1, <1>3
<1>6. Kept(d, f)
  BY <1>3, <1>4, <1>5 DEF Kept, Moves
<1>7. \A x \in f.outbox : x.id = j.id => x.done
  BY <1>1, <1>3 DEF Sound, HintsKeyed
<1> QED  BY <1>3, <1>6, <1>7 DEF f

LEMMA RetryJobMoves ==
  ASSUME NEW d, Consistent(d), Sound(d), NEW j \in d.outbox, NEW now
  PROVE  Moves(d, RetryJob(d, j, now)) /\ Kept(d, RetryJob(d, j, now))
<1> DEFINE k == [j EXCEPT !.token = None, !.until = 0,
                          !.next = now + Backoff(j.attempts)]
           f == RetryJob(d, j, now)
<1>1. SameRow(j, k) /\ k.token = None
  <2>0. j \in Job
    BY RowFacts
  <2>1. j \in Job /\ \A n : [j EXCEPT !.token = None, !.until = 0, !.next = n].token = None
    BY <2>0 DEF Job
  <2> QED  BY <2>1, RowFacts, LandedRow
<1>2. f = ReplaceJob(d, j, k)
  BY DEF RetryJob
<1> HIDE DEF k, f
<1>3. Moves(d, f) /\ f.outbox = (d.outbox \ {j}) \cup {k}
  BY <1>1, <1>2, ReplaceJobMoves
<1>4. Kept(d, d)
  BY KeptSame
<1>5. \A x \in f.outbox \ d.outbox : x.token = None
  BY <1>1, <1>3
<1>6. Kept(d, f)
  BY <1>3, <1>4, <1>5 DEF Kept, Moves
<1> QED  BY <1>3, <1>6 DEF f

\* A claim counts, and the count stays within the policy's number.
LEMMA ClaimRowMoves ==
  ASSUME NEW d, Consistent(d), Sound(d), NEW j \in d.outbox,
         j.attempts < MaxAttempts, NEW r, NEW now
  PROVE  LET f == ClaimRow(d, j, r, now)
         IN  /\ Moves(d, f)
             /\ \A x \in f.outbox :
                  \/ x \in d.outbox /\ x # j
                  \/ /\ x.id = j.id /\ SameKey(j, x) /\ x.token = r
                     /\ x.attempts = j.attempts + 1
<1> DEFINE k == [j EXCEPT !.token = r, !.until = now + Lease, !.attempts = @ + 1]
           f == ClaimRow(d, j, r, now)
<1>1. j \in Job /\ (j.done <=> j.hint = "") /\ MaxAttempts \in Nat
  BY RowFacts, StoreAssumption
<1>2. /\ k.id = j.id /\ k.event = j.event /\ k.installation = j.installation
      /\ k.generation = j.generation /\ k.hint = j.hint /\ k.done = j.done
      /\ k.attempts = j.attempts + 1 /\ j.attempts \in Nat /\ k.token = r
  BY <1>1 DEF Job
<1>3. f = ReplaceJob(d, j, k)
  BY DEF ClaimRow
<1> HIDE DEF k, f
<1>4. SameRow(j, k)
  <2>1. k.attempts >= j.attempts /\ k.attempts <= MaxAttempts
    <3>1. \A n, m \in Nat : n < m => n + 1 >= n /\ n + 1 <= m
      OBVIOUS
    <3>2. j.attempts \in Nat /\ MaxAttempts \in Nat /\ k.attempts = j.attempts + 1
      BY <1>1, <1>2
    <3> QED  BY <3>1, <3>2
  <2> QED  BY <1>1, <1>2, <2>1 DEF SameRow, SameKey
<1>5. Moves(d, f) /\ f.outbox = (d.outbox \ {j}) \cup {k}
  BY <1>3, <1>4, ReplaceJobMoves
<1>6. k.id = j.id /\ SameKey(j, k) /\ k.token = r /\ k.attempts = j.attempts + 1
  BY <1>2 DEF SameKey
<1>7. \A x \in f.outbox : \/ x \in d.outbox /\ x # j
                          \/ /\ x.id = j.id /\ SameKey(j, x) /\ x.token = r
                             /\ x.attempts = j.attempts + 1
  BY <1>5, <1>6
<1> QED  BY <1>5, <1>7 DEF f

\* Closing what ran out of attempts.
LEMMA CloseExhaustedMoves ==
  ASSUME NEW d, Consistent(d), Sound(d), NEW now
  PROVE  Moves(d, CloseExhausted(d, now)) /\ Kept(d, CloseExhausted(d, now))
<1> DEFINE spent == {j \in d.outbox : j.attempts >= MaxAttempts /\ j.until <= now}
           closed(j) == [j EXCEPT !.done = TRUE, !.hint = ""]
           f == CloseExhausted(d, now)
<1>1. /\ f.reg = d.reg /\ f.nonces = d.nonces /\ f.cursor = d.cursor
      /\ f.events = d.events /\ f.attention = d.attention
      /\ f.outbox = (d.outbox \ spent) \cup {closed(j) : j \in spent}
  BY DEF CloseExhausted, Consistent, DB
<1>2. spent \subseteq d.outbox
  OBVIOUS
<1>3. \A j \in d.outbox : SameRow(j, closed(j)) /\ closed(j).done
  BY RowFacts, LandedRow DEF Job
<1>4. \A j \in d.outbox : SameRow(j, j)
  BY RowFacts
<1> DEFINE h == [j \in d.outbox |-> IF j \in spent THEN closed(j) ELSE j]
<1> HIDE DEF spent, closed, f
<1>5. \A x \in f.outbox : \E j \in d.outbox : x = h[j] /\ SameRow(j, x)
  BY <1>1, <1>2, <1>3, <1>4
<1>6. \A j \in d.outbox : h[j] \in f.outbox /\ SameRow(j, h[j])
  BY <1>1, <1>2, <1>3, <1>4
<1>7. IsFiniteSet(f.outbox)
  <2>1. h \in Surjection(d.outbox, f.outbox)
    BY <1>5, <1>6 DEF Surjection
  <2> QED  BY <2>1, FS_Surjection DEF Sound, Finite
<1>8. \A x, y \in f.outbox : x.id = y.id => x = y
  <2> SUFFICES ASSUME NEW x \in f.outbox, NEW y \in f.outbox, x.id = y.id
               PROVE  x = y
    OBVIOUS
  <2>1. PICK j \in d.outbox : x = h[j] /\ SameRow(j, x)
    BY <1>5
  <2>2. PICK k \in d.outbox : y = h[k] /\ SameRow(k, y)
    BY <1>5
  <2>3. j = k
    BY <2>1, <2>2 DEF SameRow, Sound, HintsKeyed
  <2> QED  BY <2>1, <2>2, <2>3
<1>9. \A x \in f.outbox \ d.outbox : x.done
  BY <1>1, <1>2, <1>3
<1>10. Moves(d, f)
  BY <1>1, <1>5, <1>6, <1>7, <1>8 DEF Moves
<1>11. Kept(d, d)
  BY KeptSame
<1>12. Kept(d, f)
  BY <1>9, <1>10, <1>11 DEF Kept, Moves
<1> QED  BY <1>10, <1>12 DEF f

-----------------------------------------------------------------------------
(* Events *)

SameButAttention(d, f) ==
  /\ f.reg = d.reg /\ f.nonces = d.nonces /\ f.cursor = d.cursor
  /\ f.events = d.events /\ f.outbox = d.outbox

\* No live event and no hint asks for the request of a.
Silent(d, a) ==
  \A e \in d.events :
    e.kind = "input" /\ a.session = e.session /\ a.ref = e.ref =>
      e.cancelled /\ ~ \E j \in d.outbox : j.event = e.cursor

\* Attention may change as long as what is resolved is silent.
LEMMA AttentionSound ==
  ASSUME NEW d, Sound(d), NEW f, SameButAttention(d, f), IsFiniteSet(f.attention),
         AttentionKeyed(f), \A a \in f.attention : a.resolved => Silent(d, a)
  PROVE  Sound(f)
<1>1. EventsKeyed(f) /\ HintsKeyed(f)
  BY DEF Sound, SameButAttention, EventsKeyed, HintsKeyed
<1>2. RowsKeyed(f)
  BY DEF Sound, SameButAttention, RowsKeyed, Exists
<1>3. ChallengesFit(f)
  BY DEF Sound, SameButAttention, ChallengesFit
<1>4. HintsClose(f)
  BY DEF Sound, SameButAttention, HintsClose
<1>5. Unannounced(f)
  BY DEF SameButAttention, Unannounced, Silent
<1>6. Finite(f)
  BY DEF Sound, SameButAttention, Finite
<1> QED  BY <1>1, <1>2, <1>3, <1>4, <1>5, <1>6 DEF Sound

\* The attention row of a request, new or kept.
LEMMA NoteAttentionFacts ==
  ASSUME NEW d, Consistent(d), Sound(d), NEW ev, NEW now
  PROVE  LET f == NoteAttention(d, ev, now)
         IN  /\ SameButAttention(d, f)
             /\ IsFiniteSet(f.attention)
             /\ AttentionKeyed(f)
             /\ \A a \in f.attention :
                  \/ /\ a \in d.attention
                     /\ ~ (a.session = ev.session /\ a.ref = ev.ref)
                  \/ /\ a.session = ev.session /\ a.ref = ev.ref
                     /\ a.resolved =>
                          \/ ev.kind = "input_resolved"
                          \/ \E b \in d.attention : /\ b.session = ev.session
                                                   /\ b.ref = ev.ref
                                                   /\ b.resolved
<1> DEFINE f == NoteAttention(d, ev, now)
           old == {a \in d.attention : a.session = ev.session /\ a.ref = ev.ref}
           rows == {a.row : a \in d.attention}
           number == IF old = {} THEN Top(rows) + 1 ELSE (CHOOSE a \in old : TRUE).row
           resolved == ev.kind = "input_resolved" \/ \E a \in old : a.resolved
           new == [row |-> number, session |-> ev.session, ref |-> ev.ref,
                   resolved |-> resolved, expires |-> now + 2 * TTL]
<1>1. f = [d EXCEPT !.attention = (d.attention \ old) \cup {new}]
  BY DEF NoteAttention
<1>2. /\ new.row = number /\ new.session = ev.session /\ new.ref = ev.ref
      /\ new.resolved = resolved
  OBVIOUS
<1>3. \A a \in d.attention \ old : a.row # number
  <2>1. CASE old = {}
    <3>1. rows \in SUBSET Nat /\ IsFiniteSet(rows)
      <4> DEFINE h == [a \in d.attention |-> a.row]
      <4>1. h \in Surjection(d.attention, rows)
        BY DEF Surjection
      <4>2. IsFiniteSet(rows)
        BY <4>1, FS_Surjection DEF Sound, Finite
      <4>3. \A a \in d.attention : a.row \in Nat
        BY DEF Consistent, DB, Attention
      <4> QED  BY <4>2, <4>3
    <3>2. Top(rows) \in Nat /\ \A m \in rows : m <= Top(rows)
      BY <3>1, TopAbove
    <3>3. number = Top(rows) + 1
      BY <2>1
    <3>4. \A m \in rows : m # number
      <4> HIDE DEF rows, number
      <4> QED  BY <3>1, <3>2, <3>3
    <3> HIDE DEF number
    <3> QED  BY <3>4
  <2>2. CASE old # {}
    <3>1. \E a \in old : number = a.row
      BY <2>2
    <3> HIDE DEF number
    <3> QED  BY <3>1 DEF Sound, AttentionKeyed
  <2> QED  BY <2>1, <2>2
<1> HIDE DEF new, f, number, resolved
<1>4. SameButAttention(d, f) /\ f.attention = (d.attention \ old) \cup {new}
  BY <1>1 DEF SameButAttention, Consistent, DB
<1>5. IsFiniteSet(f.attention)
  <2>1. IsFiniteSet(d.attention \ old)
    BY FS_Subset DEF Sound, Finite
  <2> QED  BY <1>4, <2>1, FS_AddElement
<1>6. AttentionKeyed(f)
  <2>1. \A a \in d.attention \ old : /\ a.row # new.row
                                    /\ ~ (a.session = new.session /\ a.ref = new.ref)
    BY <1>2, <1>3
  <2> QED  BY <1>4, <2>1 DEF Sound, AttentionKeyed
<1>7. \A a \in f.attention :
        \/ a \in d.attention /\ ~ (a.session = ev.session /\ a.ref = ev.ref)
        \/ /\ a.session = ev.session /\ a.ref = ev.ref
           /\ a.resolved => resolved
  BY <1>2, <1>4
<1> QED  BY <1>4, <1>5, <1>6, <1>7 DEF f, resolved

\* Settling an event that is not ignored: what it resolves is silent, and what
\* it asks is not resolved.
LEMMA SettleFacts ==
  ASSUME NEW d, Consistent(d), Sound(d), NEW ev \in HookEvent, ~ Ignored(d, ev),
         NEW now \in Nat
  PROVE  LET f == Settle(d, ev, now)
         IN  /\ Sound(f)
             /\ \E e : Trims(d, e) /\ SameButAttention(e, f)
             /\ ev.kind = "input" =>
                  \A a \in f.attention :
                    a.session = ev.session /\ a.ref = ev.ref => ~ a.resolved
<1> DEFINE f == Settle(d, ev, now)
<1>1. Unannounced(d)
  BY DEF Sound
<1>2. CASE ev.kind = "input"
  <2>1. f = NoteAttention(d, ev, now)
    BY <1>2 DEF Settle
  <2> HIDE DEF f
  <2>2. SameButAttention(d, f) /\ IsFiniteSet(f.attention) /\ AttentionKeyed(f)
    BY <2>1, NoteAttentionFacts
  <2>3. \A a \in f.attention :
          \/ a \in d.attention /\ ~ (a.session = ev.session /\ a.ref = ev.ref)
          \/ a.session = ev.session /\ a.ref = ev.ref /\ ~ a.resolved
    BY <1>2, <2>1, NoteAttentionFacts DEF Ignored
  <2>4. Sound(f)
    BY <1>1, <2>2, <2>3, AttentionSound DEF Silent, Unannounced
  <2>5. Trims(d, d)
    BY DEF Trims, Sound, Finite, EventsKeyed, HintsKeyed, SameEvent
  <2> QED  BY <2>2, <2>3, <2>4, <2>5 DEF f
<1>3. CASE ev.kind = "input_resolved"
  <2> DEFINE n == NoteAttention(d, ev, now)
             e == CancelAttention(d, ev.session, {ev.ref})
  <2>1. f = CancelAttention(n, ev.session, {ev.ref})
    BY <1>3 DEF Settle
  <2>2. SameButAttention(d, n) /\ IsFiniteSet(n.attention) /\ AttentionKeyed(n)
    BY NoteAttentionFacts
  <2>3. \A a \in n.attention :
          \/ a \in d.attention /\ ~ (a.session = ev.session /\ a.ref = ev.ref)
          \/ a.session = ev.session /\ a.ref = ev.ref
    BY NoteAttentionFacts
  <2>4. /\ Trims(d, e)
        /\ \A x \in e.events :
             x.kind = "input" /\ x.session = ev.session /\ x.ref \in {ev.ref} =>
               x.cancelled /\ ~ \E j \in e.outbox : j.event = x.cursor
    BY SMTT(30), CancelAttentionTrims
  <2>5. n \in DB
    BY NoteAttentionConsistent DEF Consistent
  <2>6. SameButAttention(e, f) /\ f.attention = n.attention
    <3> HIDE DEF n, f
    <3> QED  BY <2>1, <2>2, <2>5 DEF CancelAttention, SameButAttention, Consistent, DB
  <2>7. Sound(e)
    BY <2>4, TrimsSound
  <2> HIDE DEF f, n, e
  <2>8. \A a \in d.attention : a.resolved => Silent(e, a)
    <3> SUFFICES ASSUME NEW a \in d.attention, a.resolved, NEW x \in e.events,
                        x.kind = "input", a.session = x.session, a.ref = x.ref
                 PROVE  x.cancelled /\ ~ \E j \in e.outbox : j.event = x.cursor
      BY DEF Silent
    <3>1. PICK c \in d.events : SameEvent(c, x)
      BY <2>4 DEF Trims
    <3> QED  BY <3>1, <1>1, <2>4 DEF Trims, SameEvent, Unannounced
  <2>9. \A a \in f.attention : a.resolved => Silent(e, a)
    BY <2>3, <2>4, <2>6, <2>8 DEF Silent
  <2>10. AttentionKeyed(f) /\ IsFiniteSet(f.attention)
    BY <2>2, <2>6 DEF AttentionKeyed
  <2>11. Sound(f)
    BY <2>6, <2>7, <2>9, <2>10, AttentionSound
  <2> QED  BY <1>3, <2>4, <2>6, <2>11 DEF f
<1>4. CASE ev.kind \notin {"input", "input_resolved"}
  <2> DEFINE e == CancelAttention(d, ev.session, Ref)
             mark(a) == IF a.session = ev.session THEN [a EXCEPT !.resolved = TRUE]
                        ELSE a
             h == [a \in e.attention |-> mark(a)]
  <2>1. f = ResolveSession(e, ev.session)
    BY <1>4 DEF Settle
  <2>2. /\ Trims(d, e) /\ e.attention = d.attention
        /\ \A x \in e.events :
             x.kind = "input" /\ x.session = ev.session /\ x.ref \in Ref =>
               x.cancelled /\ ~ \E j \in e.outbox : j.event = x.cursor
    BY CancelAttentionTrims
  <2>3. Sound(e) /\ Consistent(e)
    BY <2>2, TrimsSound, CancelAttentionConsistent
  <2> HIDE DEF f, e
  <2>4. SameButAttention(e, f) /\ f.attention = {mark(a) : a \in e.attention}
    BY <2>1, <2>3 DEF ResolveSession, SameButAttention, Consistent, DB
  <2>5. \A a \in e.attention : /\ mark(a).row = a.row /\ mark(a).session = a.session
                               /\ mark(a).ref = a.ref /\ a.ref \in Ref
                               /\ mark(a).session # ev.session => mark(a) = a
    BY <2>3 DEF Consistent, DB, Attention
  <2> HIDE DEF mark
  <2>6. IsFiniteSet(f.attention)
    <3>1. h \in Surjection(e.attention, f.attention)
      BY <2>4 DEF Surjection
    <3> QED  BY <2>3, <3>1, FS_Surjection DEF Sound, Finite
  <2>7. AttentionKeyed(f)
    BY <2>3, <2>4, <2>5 DEF Sound, AttentionKeyed
  <2>8. \A a \in f.attention : a.resolved => Silent(e, a)
    <3> SUFFICES ASSUME NEW b \in e.attention, mark(b).resolved
                 PROVE  Silent(e, mark(b))
      BY <2>4
    <3>1. CASE b.session = ev.session
      BY <2>2, <2>5, <3>1 DEF Silent
    <3>2. CASE b.session # ev.session
      BY <2>3, <2>5, <3>2 DEF Silent, Sound, Unannounced
    <3> QED  BY <3>1, <3>2
  <2>9. Sound(f)
    BY <2>3, <2>4, <2>6, <2>7, <2>8, AttentionSound
  <2> QED  BY <1>4, <2>2, <2>4, <2>9 DEF f
<1> QED  BY <1>2, <1>3, <1>4

\* Queueing an event adds rows, numbered by the recipients' places in the scan.
LEMMA EnqueueAdds ==
  ASSUME NEW d, Consistent(d), Sound(d), NEW ev \in HookEvent,
         NEW R \in SUBSET Installation,
         \A i \in R : d.reg[i].status = "active" /\ d.reg[i].owner \in Principal,
         NEW order \in ScanOrders(R), NEW expires \in Nat, NEW now \in Nat
  PROVE  Adds(d, Enqueue(d, ev, R, order, expires, now), ev, R)
<1> DEFINE owners == {d.reg[i].owner : i \in R}
           fresh  == {p \in owners : ~ \E e \in d.events : IsEvent(e, p, ev)}
           leader(p) == CHOOSE i \in R : d.reg[i].owner = p
           eventOf(p) == [cursor |-> d.cursor + order[leader(p)], owner |-> p,
                  kind |-> ev.kind, session |-> ev.session, ref |-> ev.ref,
                  installation |-> None, expires |-> expires,
                  cancelled |-> FALSE]
           added  == {eventOf(p) : p \in fresh}
           events == d.events \cup added
           cursorOf(i) == (CHOOSE e \in events : IsEvent(e, d.reg[i].owner, ev)).cursor
           queued == {i \in R : \E j \in d.outbox :
                        /\ j.event = cursorOf(i)
                        /\ j.installation = i
                        /\ j.generation = d.reg[i].generation}
           jobOf(i) == NewJob(Top(JobIds(d)) + order[i], cursorOf(i), i,
                              d.reg[i].generation, ev.kind, now)
           jobs == {jobOf(i) : i \in R \ queued}
           cursor == IF fresh = {} THEN d.cursor ELSE d.cursor + Cardinality(R)
           n == Cardinality(R)
           f == Enqueue(d, ev, R, order, expires, now)
<1>1. d \in DB /\ d.cursor \in Nat /\ \A e \in d.events : e.cursor \in Nat
  BY DEF Consistent, DB, Event
<1>2. IsFiniteSet(R) /\ n \in Nat
  <2>1. IsFiniteSet(R)
    BY StoreAssumption, FS_Subset
  <2> QED  BY <2>1, FS_CardinalityType
<1>3. /\ \A i \in R : order[i] \in Nat /\ 1 <= order[i] /\ order[i] <= n
      /\ \A i, k \in R : order[i] = order[k] => i = k
  <2>1. /\ \A i \in R : order[i] \in 1 .. n
        /\ \A i, k \in R : order[i] = order[k] => i = k
    BY DEF ScanOrders, Bijection, Injection, IsInjective
  <2> HIDE DEF n
  <2> QED  BY <1>2, <2>1
<1>4. f = [d EXCEPT !.events = events, !.cursor = cursor,
                    !.outbox = d.outbox \cup jobs]
  BY DEF Enqueue
<1> HIDE DEF n
<1>5. \A p \in fresh : leader(p) \in R /\ d.reg[leader(p)].owner = p
  OBVIOUS
<1>6. \A p \in fresh : /\ eventOf(p).cursor = d.cursor + order[leader(p)]
                       /\ AnnouncedBy(eventOf(p), ev)
                       /\ IsEvent(eventOf(p), p, ev)
  BY DEF AnnouncedBy, IsEvent
<1>7. cursor \in {d.cursor, d.cursor + n} /\ (fresh # {} => cursor = d.cursor + n)
  BY DEF n
<1>8. \A i \in R : d.reg[i].owner \in owners
  OBVIOUS
<1>9. \A p \in owners : p \in fresh \/ \E e \in d.events : IsEvent(e, p, ev)
  OBVIOUS
<1> HIDE DEF eventOf, leader, fresh, owners, cursor
<1>10. \A p \in fresh : /\ d.cursor < eventOf(p).cursor
                        /\ eventOf(p).cursor <= cursor
  <2> SUFFICES ASSUME NEW p \in fresh
               PROVE  d.cursor < eventOf(p).cursor /\ eventOf(p).cursor <= cursor
    OBVIOUS
  <2>1. cursor = d.cursor + n /\ eventOf(p).cursor = d.cursor + order[leader(p)]
    BY <1>6, <1>7
  <2>2. order[leader(p)] \in Nat /\ 1 <= order[leader(p)] /\ order[leader(p)] <= n
    BY <1>3, <1>5
  <2> QED  BY <1>1, <1>2, <2>1, <2>2
<1>11. \A p, q \in fresh : eventOf(p).cursor = eventOf(q).cursor => p = q
  <2> SUFFICES ASSUME NEW p \in fresh, NEW q \in fresh,
                      eventOf(p).cursor = eventOf(q).cursor
               PROVE  p = q
    OBVIOUS
  <2>1. order[leader(p)] \in Nat /\ order[leader(q)] \in Nat
    BY <1>3, <1>5
  <2>2. order[leader(p)] = order[leader(q)]
    BY <1>1, <1>6, <2>1
  <2>3. leader(p) = leader(q)
    BY <1>3, <1>5, <2>2
  <2> QED  BY <1>5, <2>3
<1>12. \A e, c \in events : e.cursor = c.cursor => e = c
  <2>1. \A e, c \in d.events : e.cursor = c.cursor => e = c
    BY DEF Sound, EventsKeyed
  <2>2. \A e \in d.events, p \in fresh : e.cursor # eventOf(p).cursor
    <3> SUFFICES ASSUME NEW e \in d.events, NEW p \in fresh,
                        e.cursor = eventOf(p).cursor
                 PROVE  FALSE
      OBVIOUS
    <3>1. e.cursor \in Nat /\ e.cursor <= d.cursor
      BY <1>1 DEF Sound, EventsKeyed
    <3>2. d.cursor < e.cursor
      BY <1>10
    <3> QED  BY <1>1, <3>1, <3>2
  <2>3. \A e \in events : e \in d.events \/ \E p \in fresh : e = eventOf(p)
    OBVIOUS
  <2> HIDE DEF events
  <2> QED  BY <1>11, <2>1, <2>2, <2>3
<1>13. /\ d.events \subseteq events
       /\ \A e \in events \ d.events : /\ e.cursor > d.cursor /\ e.cursor <= cursor
                                       /\ AnnouncedBy(e, ev)
  <2>1. \A p \in fresh : eventOf(p).cursor > d.cursor
    BY <1>10
  <2> QED  BY <1>6, <1>10, <2>1
<1>14. IsFiniteSet(events)
  <2>1. IsFiniteSet(owners)
    <3> DEFINE h == [i \in R |-> d.reg[i].owner]
    <3>1. h \in Surjection(R, owners)
      BY DEF Surjection, owners
    <3> QED  BY <1>2, <3>1, FS_Surjection
  <2>2. IsFiniteSet(fresh)
    BY <2>1, FS_Subset DEF fresh
  <2>3. IsFiniteSet(added)
    <3> DEFINE h == [p \in fresh |-> eventOf(p)]
    <3>1. h \in Surjection(fresh, added)
      BY DEF Surjection
    <3> QED  BY <2>2, <3>1, FS_Surjection
  <2>4. IsFiniteSet(d.events)
    BY DEF Sound, Finite
  <2> HIDE DEF added
  <2> QED  BY <2>3, <2>4, FS_Union
<1> HIDE DEF events
<1>15. \A i \in R : \E e \in events : e.cursor = cursorOf(i) /\ AnnouncedBy(e, ev)
  <2> SUFFICES ASSUME NEW i \in R
               PROVE  \E e \in events : e.cursor = cursorOf(i) /\ AnnouncedBy(e, ev)
    OBVIOUS
  <2>1. \E e \in events : IsEvent(e, d.reg[i].owner, ev)
    <3>1. CASE d.reg[i].owner \in fresh
      BY <3>1, <1>6 DEF events
    <3>2. CASE d.reg[i].owner \notin fresh
      BY <3>2, <1>8, <1>9 DEF events
    <3> QED  BY <3>1, <3>2
  <2> QED  BY <2>1 DEF IsEvent, AnnouncedBy
<1>16. Top(JobIds(d)) \in Nat /\ \A j \in d.outbox : j.id \in Nat /\ j.id <= Top(JobIds(d))
  <2>0. \A j \in d.outbox : j.id \in Nat
    BY DEF Consistent, DB, Job
  <2>1. JobIds(d) \in SUBSET Nat /\ IsFiniteSet(JobIds(d))
    <3> DEFINE h == [j \in d.outbox |-> j.id]
    <3>1. h \in Surjection(d.outbox, JobIds(d))
      BY DEF Surjection, JobIds
    <3>2. IsFiniteSet(JobIds(d))
      BY <3>1, FS_Surjection DEF Sound, Finite
    <3> QED  BY <2>0, <3>2 DEF JobIds
  <2>2. Top(JobIds(d)) \in Nat /\ \A m \in JobIds(d) : m <= Top(JobIds(d))
    BY <2>1, TopAbove
  <2> QED  BY <2>0, <2>2 DEF JobIds
<1>17. \A i \in R : /\ jobOf(i).id = Top(JobIds(d)) + order[i]
                    /\ jobOf(i).event = cursorOf(i) /\ jobOf(i).installation = i
                    /\ jobOf(i).generation = d.reg[i].generation
                    /\ jobOf(i).hint = ev.kind /\ jobOf(i).attempts = 0
                    /\ jobOf(i).token = None /\ jobOf(i).done = FALSE
  <2> HIDE DEF cursorOf
  <2> QED  BY DEF NewJob
<1>18. queued \subseteq R /\ \A i \in R \ queued, j \in d.outbox :
         ~ (/\ j.event = cursorOf(i) /\ j.installation = i
            /\ j.generation = d.reg[i].generation)
  OBVIOUS
<1> HIDE DEF jobOf, cursorOf, queued
<1>19. /\ \A i \in R, j \in d.outbox : j.id # jobOf(i).id
       /\ \A i, k \in R : jobOf(i).id = jobOf(k).id => i = k
  <2>1. \A t, a, m \in Nat : a <= t /\ 1 <= m => a # t + m
    OBVIOUS
  <2>2. \A t, a, m \in Nat : t + a = t + m => a = m
    OBVIOUS
  <2> QED  BY <1>3, <1>16, <1>17, <2>1, <2>2
<1>20. \A i \in R \ queued, j \in d.outbox :
         ~ SameKey(j, jobOf(i)) /\ ~ SameKey(jobOf(i), j)
  BY <1>17, <1>18 DEF SameKey
<1>21. \A j, k \in d.outbox \cup jobs : j.id = k.id \/ SameKey(j, k) => j = k
  <2>1. \A j, k \in d.outbox : j.id = k.id \/ SameKey(j, k) => j = k
    BY DEF Sound, HintsKeyed
  <2>2. \A i, k \in R : jobOf(i).id = jobOf(k).id \/ SameKey(jobOf(i), jobOf(k)) => i = k
    BY <1>17, <1>19 DEF SameKey
  <2>3. \A j \in jobs : \E i \in R \ queued : j = jobOf(i)
    OBVIOUS
  <2> HIDE DEF jobs
  <2>4. \A j, k \in jobs : j.id = k.id \/ SameKey(j, k) => j = k
    BY <2>2, <2>3
  <2>5. \A j \in d.outbox, k \in jobs :
          j.id # k.id /\ ~ SameKey(j, k) /\ ~ SameKey(k, j)
    BY <1>19, <1>20, <2>3
  <2> QED  BY <2>1, <2>4, <2>5
<1>22. IsFiniteSet(d.outbox \cup jobs)
  <2>1. IsFiniteSet(R \ queued)
    BY <1>2, FS_Subset
  <2>2. IsFiniteSet(jobs)
    <3> DEFINE h == [i \in R \ queued |-> jobOf(i)]
    <3>1. h \in Surjection(R \ queued, jobs)
      BY DEF Surjection
    <3> QED  BY <2>1, <3>1, FS_Surjection
  <2>3. IsFiniteSet(d.outbox)
    BY DEF Sound, Finite
  <2> HIDE DEF jobs
  <2> QED  BY <2>2, <2>3, FS_Union
<1>23. \A j \in jobs :
         /\ j.attempts = 0 /\ j.token = None /\ j.done = FALSE /\ j.hint = ev.kind
         /\ j.installation \in R
         /\ \E e \in events : e.cursor = j.event /\ AnnouncedBy(e, ev)
         /\ \A k \in d.outbox : ~ SameKey(k, j)
  BY <1>15, <1>17, <1>18, <1>20
<1> HIDE DEF jobs, f
<1>24. /\ f.reg = d.reg /\ f.nonces = d.nonces /\ f.attention = d.attention
       /\ f.events = events /\ f.cursor = cursor /\ f.outbox = d.outbox \cup jobs
  BY <1>1, <1>4 DEF DB
<1>25. d.cursor <= cursor
  BY <1>1, <1>2, <1>7
<1> QED  BY <1>12, <1>13, <1>14, <1>21, <1>22, <1>23, <1>24, <1>25 DEF Adds, f
\* Recording an event prunes, settles, adds and prunes, or stops on the way.
Recording(d, f, ev, R) ==
  \E e, t, s, q :
    /\ Trims(d, e) /\ Consistent(e) /\ Sound(e)
    /\ Trims(e, t) /\ SameButAttention(t, s) /\ Consistent(s) /\ Sound(s)
    /\ Adds(s, q, ev, R) /\ Consistent(q) /\ Sound(q)
    /\ \E now : f = Prune(q, now)

LEMMA RecordSteps ==
  ASSUME NEW d, Consistent(d), Sound(d), NEW ev \in HookEvent,
         NEW targets \in Targets, NEW pol \in Policy,
         NEW order \in ScanOrders(Recipients(d, ev, targets, pol)),
         NEW expires \in Nat, NEW now \in Nat
  PROVE  LET f == Record(d, ev, targets, pol, order, expires, now)
         IN  f = d \/ f = Prune(d, now)
                \/ Recording(d, f, ev, Recipients(d, ev, targets, pol))
<1> DEFINE e == Prune(d, now)
           s == Settle(e, ev, now)
           R == Recipients(d, ev, targets, pol)
           q == Enqueue(s, ev, R, order, expires, now)
           f == Record(d, ev, targets, pol, order, expires, now)
<1>1. Consistent(e) /\ e.reg = d.reg /\ Trims(d, e) /\ Sound(e)
  BY PruneConsistent, PruneTrims, TrimsSound
<1>2. f = d \/ f = e \/ (~ Ignored(e, ev) /\ f = Prune(q, now))
  BY DEF Record
<1>3. CASE ~ Ignored(e, ev) /\ f = Prune(q, now)
  <2> HIDE DEF e
  <2>1. Consistent(s) /\ s.reg = d.reg
    BY <1>1, SettleConsistent
  <2>2. /\ Sound(s)
        /\ \E t : Trims(e, t) /\ SameButAttention(t, s)
        /\ ev.kind = "input" =>
             \A a \in s.attention :
               a.session = ev.session /\ a.ref = ev.ref => ~ a.resolved
    BY <1>1, <1>3, SettleFacts
  <2> HIDE DEF s
  <2>3. /\ R \in SUBSET Installation
        /\ \A i \in R : s.reg[i].status = "active" /\ s.reg[i].owner \in Principal
    BY <2>1, RecipientsType
  <2> HIDE DEF R
  <2>4. order \in ScanOrders(R)
    BY DEF R
  <2>5. Consistent(q) /\ Adds(s, q, ev, R)
    BY <2>1, <2>2, <2>3, <2>4, EnqueueConsistent, EnqueueAdds
  <2> HIDE DEF q
  <2>6. Sound(q)
    BY <2>1, <2>2, <2>3, <2>5, AddsSound
  <2> HIDE DEF f
  <2>7. Recording(d, f, ev, R)
    BY <1>1, <1>3, <2>1, <2>2, <2>5, <2>6 DEF Recording
  <2> QED  BY <2>7 DEF f, R
<1> QED  BY <1>1, <1>2, <1>3

LEMMA SettledKept ==
  ASSUME NEW e, NEW t, NEW s, Consistent(e), Sound(e), Trims(e, t),
         SameButAttention(t, s)
  PROVE  Kept(e, s)
<1>1. Kept(e, t)
  BY TrimsKept
<1> QED  BY <1>1 DEF Kept, SameButAttention

LEMMA RecordingSound ==
  ASSUME NEW d, NEW f, NEW ev, NEW R, Consistent(d), Consistent(f), Sound(d),
         Recording(d, f, ev, R)
  PROVE  Sound(f) /\ Kept(d, f)
<1>1. PICK e, t, s, q :
        /\ Trims(d, e) /\ Consistent(e) /\ Sound(e)
        /\ Trims(e, t) /\ SameButAttention(t, s) /\ Consistent(s) /\ Sound(s)
        /\ Adds(s, q, ev, R) /\ Consistent(q) /\ Sound(q)
        /\ Trims(q, f)
  BY PruneTrims DEF Recording
<1>2. Kept(d, e) /\ Kept(e, s) /\ Kept(s, q) /\ Kept(q, f)
  BY <1>1, TrimsKept, SettledKept, AddsKept
<1>3. Kept(d, s)
  BY <1>1, <1>2, KeptTransitive
<1>4. Kept(d, q)
  BY <1>1, <1>2, <1>3, KeptTransitive
<1>5. Kept(d, f)
  BY <1>1, <1>2, <1>4, KeptTransitive
<1> QED  BY <1>1, <1>5, TrimsSound

-----------------------------------------------------------------------------
(* Limits *)

\* What is left after a prune is within the policy's number.
LEMMA PruneBounded ==
  ASSUME NEW d, Consistent(d), Sound(d), NEW now
  PROVE  Bounded(Prune(d, now))
<1> DEFINE E == {e \in d.events : e.expires > now}
           A == {a \in d.attention : a.expires > now}
           f == Prune(d, now)
<1>1. f.events = NewestEvents(E) /\ f.attention = NewestAttention(A)
  BY DEF Prune, Consistent, DB
<1>2. MaxEvents \in Nat \ {0}
  BY StoreAssumption
<1>3. Cardinality(NewestEvents(E)) <= MaxEvents
  <2> DEFINE key == [e \in E |-> e.cursor]
  <2>1. IsFiniteSet(E)
    BY FS_Subset DEF Sound, Finite
  <2>2. key \in [E -> Nat]
    BY DEF Consistent, DB, Event
  <2>3. \A e, c \in E : key[e] = key[c] => e = c
    BY DEF Sound, EventsKeyed
  <2>4. NewestEvents(E) =
          {e \in E : Cardinality({c \in E : key[c] > key[e]}) < MaxEvents}
    <3>1. \A e \in E : {c \in E : key[c] > key[e]} = {c \in E : c.cursor > e.cursor}
      OBVIOUS
    <3> QED  BY <3>1 DEF NewestEvents
  <2> HIDE DEF key, E
  <2> QED  BY <1>2, <2>1, <2>2, <2>3, <2>4, NewestFew
<1>4. Cardinality(NewestAttention(A)) <= MaxEvents
  <2> DEFINE key == [a \in A |-> a.row]
  <2>1. IsFiniteSet(A)
    BY FS_Subset DEF Sound, Finite
  <2>2. key \in [A -> Nat]
    BY DEF Consistent, DB, Attention
  <2>3. \A a, b \in A : key[a] = key[b] => a = b
    BY DEF Sound, AttentionKeyed
  <2>4. NewestAttention(A) =
          {a \in A : Cardinality({b \in A : key[b] > key[a]}) < MaxEvents}
    <3>1. \A a \in A : {b \in A : key[b] > key[a]} = {b \in A : b.row > a.row}
      OBVIOUS
    <3> QED  BY <3>1 DEF NewestAttention
  <2> HIDE DEF key, A
  <2> QED  BY <1>2, <2>1, <2>2, <2>3, <2>4, NewestFew
<1> QED  BY <1>1, <1>3, <1>4 DEF Bounded

\* Rows are cancelled in place: the tables do not grow.
LEMMA CancelBounded ==
  ASSUME NEW d, Consistent(d), Sound(d), Bounded(d), NEW C \in SUBSET d.events,
         NEW f, f.events = Cancel(d.events, C), f.attention = d.attention
  PROVE  Bounded(f)
<1>1. IsFiniteSet(d.events) /\ IsFiniteSet(f.events)
  BY CancelSize DEF Sound, Finite
<1>2. Cardinality(f.events) <= Cardinality(d.events)
  BY <1>1, CancelSize
<1>3. Cardinality(d.events) \in Nat /\ Cardinality(f.events) \in Nat
  BY <1>1, FS_CardinalityType
<1>4. MaxEvents \in Nat /\ Cardinality(d.events) <= MaxEvents
  BY StoreAssumption DEF Bounded
<1>5. Cardinality(f.events) <= MaxEvents
  BY <1>2, <1>3, <1>4
<1> QED  BY <1>5 DEF Bounded

LEMMA AuthoritiesBounded ==
  ASSUME NEW d, Consistent(d), Sound(d), Bounded(d)
  PROVE  /\ Bounded(Migrate(d))
         /\ \A i \in Installation : /\ Bounded(RevokeIn(d, i))
                                    /\ Bounded(Confirm(d, i))
                                    /\ \A p : Bounded(Revoke(d, p, i))
<1>1. d \in DB
  BY DEF Consistent
<1>2. Bounded(Migrate(d))
  <2> DEFINE C == UNION {Challenges(d, i) : i \in {k \in Installation : Legacy(d, k)}}
  <2>1. C \in SUBSET d.events
    BY DEF Challenges
  <2>2. Migrate(d).events = Cancel(d.events, C) /\ Migrate(d).attention = d.attention
    BY <1>1 DEF Migrate, DB
  <2> HIDE DEF C
  <2> QED  BY <2>1, <2>2, CancelBounded
<1>3. \A i \in Installation : Bounded(RevokeIn(d, i))
  <2> SUFFICES ASSUME NEW i \in Installation
               PROVE  Bounded(RevokeIn(d, i))
    OBVIOUS
  <2>1. Challenges(d, i) \in SUBSET d.events
    BY DEF Challenges
  <2>2. /\ RevokeIn(d, i).events = Cancel(d.events, Challenges(d, i))
        /\ RevokeIn(d, i).attention = d.attention
    BY <1>1 DEF RevokeIn, DropHints, CancelChallenges, Challenges, DB
  <2> QED  BY <2>1, <2>2, CancelBounded
<1>4. \A i \in Installation : Bounded(Confirm(d, i))
  <2> SUFFICES ASSUME NEW i \in Installation
               PROVE  Bounded(Confirm(d, i))
    OBVIOUS
  <2> DEFINE e == DropHints(d, i)
  <2>1. e \in DB /\ e.events = d.events /\ e.attention = d.attention
    BY <1>1, DropHintsFacts
  <2>2. Confirm(d, i) = [e EXCEPT !.reg[i].status = "active", !.reg[i].challenge = 0]
    BY DEF Confirm
  <2> HIDE DEF e
  <2>3. Confirm(d, i).events = d.events /\ Confirm(d, i).attention = d.attention
    BY <2>1, <2>2 DEF DB
  <2> QED  BY <2>3 DEF Bounded
<1>5. \A i \in Installation : \A p : Bounded(Revoke(d, p, i))
  <2> SUFFICES ASSUME NEW i \in Installation, NEW p
               PROVE  Bounded(Revoke(d, p, i))
    OBVIOUS
  <2>1. CASE Exists(d, i)
    BY <1>3, <2>1 DEF Revoke
  <2>2. CASE ~ Exists(d, i)
    <3>1. /\ Revoke(d, p, i).events = d.events
          /\ Revoke(d, p, i).attention = d.attention
      BY <1>1, <2>2 DEF Revoke, DB
    <3> QED  BY <3>1 DEF Bounded
  <2> QED  BY <2>1, <2>2
<1> QED  BY <1>2, <1>3, <1>4, <1>5

LEMMA RecordBounded ==
  ASSUME NEW d, Consistent(d), Sound(d), Bounded(d), NEW ev \in HookEvent,
         NEW targets \in Targets, NEW pol \in Policy,
         NEW order \in ScanOrders(Recipients(d, ev, targets, pol)),
         NEW expires \in Nat, NEW now \in Nat
  PROVE  Bounded(Record(d, ev, targets, pol, order, expires, now))
<1> DEFINE R == Recipients(d, ev, targets, pol)
           f == Record(d, ev, targets, pol, order, expires, now)
<1>1. f = d \/ f = Prune(d, now) \/ Recording(d, f, ev, R)
  BY RecordSteps
<1> HIDE DEF f, R
<1>2. ASSUME Recording(d, f, ev, R)
      PROVE  Bounded(f)
  <2>1. \E q, n : Consistent(q) /\ Sound(q) /\ f = Prune(q, n)
    BY <1>2 DEF Recording
  <2> QED  BY <2>1, PruneBounded
<1>3. Bounded(f)
  BY <1>1, <1>2, PruneBounded
<1> QED  BY <1>3 DEF f

=============================================================================
