--------------------------- MODULE PushReaderProofs ---------------------------
(***************************************************************************)
(* A phone that reads page by page misses nothing, for every number of     *)
(* events, every page limit and every order of pages, commits and changes  *)
(* of the policy.  A page passes over whole the rows up to its cursor; the *)
(* steps of the server put no row before a cursor that was handed out.     *)
(***************************************************************************)
EXTENDS PushReader, PushHistoryProofs

-----------------------------------------------------------------------------
(* The server's side *)

\* No step changes an event but to cancel it, nor adds one at or before the
\* cursor there was.
EventsKept(d, f) ==
  /\ d.cursor <= f.cursor
  /\ \A e \in f.events : e.cursor <= d.cursor =>
       \E c \in d.events : SameEvent(c, e)

LEMMA EventsStay ==
  ASSUME TypedInv, Sound(db), [Next]_vars
  PROVE  EventsKept(db, db')
<1>1. Consistent(db) /\ now \in Nat
  BY DEF TypedInv, TypeOK
<1>2. CASE db' = db
  BY <1>1, <1>2, KeptSame DEF EventsKept, Kept
<1>3. CASE Transacts(db, db')
  BY <1>3 DEF EventsKept, Transacts, Kept
<1>4. ASSUME NEW r \in Runtime, Claims(r)
      PROVE  EventsKept(db, db')
  <2> DEFINE e == BeforeClaim(db, now)
  <2>1. Kept(db, e)
    BY <1>1, BeforeClaimTransacts DEF Transacts
  <2>2. PICK j \in OldestDue(e, now) : db' = ClaimRow(e, j, r, now)
    BY <1>4 DEF Claims
  <2> HIDE DEF e
  <2>3. Consistent(e) /\ Sound(e)
    BY <1>1, BeforeClaimTransacts DEF e, Transacts
  <2>4. Moves(e, db')
    BY <2>2, <2>3, ClaimRowMoves DEF OldestDue, Due
  <2> QED  BY <2>1, <2>4 DEF EventsKept, Kept, Moves
<1> QED  BY <1>2, <1>3, <1>4, StoreWrites, WritesTransact

LEMMA TimePasses ==
  ASSUME TypedInv, [Next]_vars
  PROVE  now \in Nat /\ now' \in Nat /\ now <= now'
<1> USE DEF storeVars, operatorVars, apiVars, historyVars
<1>0. now \in Nat
  BY DEF TypedInv, TypeOK
<1>1. CASE Tick
  BY <1>0, <1>1 DEF Tick
<1>2. CASE now' = now
  BY <1>0, <1>2
<1>3. CASE ApiStep \/ ObserverStep \/ OperatorStep \/ UNCHANGED vars
  <2>1. now' = now
    BY <1>3 DEF ApiStep, OpenStore, SubmitPut, CommitPut, SubmitConfirm,
                CommitConfirm, AbandonPut, AbandonConfirm, RevokeRegistration,
                ObserverStep, HookBegin, HookSkip, HookRun, HookCapture, HookPeek,
                HookWrite, HookBusy, HookQueue, HookFail, observerUnchanged,
                OperatorStep, ChangePolicy, ChangeDurable, vars
  <2> QED  BY <1>2, <2>1
<1>4. CASE WorkerStep
  <2>1. now' = now
    BY <1>4 DEF WorkerStep, Start, Stop, Exit, BeginPass, DrainPeek, DrainStore,
                DrainRemove, CheckInbox, ClaimJob, LostLease, DropUnpermitted,
                WorkerBusy, BeginSend, FinishSend, SendAccepted, SendRejected,
                SendGone, SendFailed, Crash, WorkerRun, workerUnchanged
  <2> QED  BY <1>2, <2>1
<1> QED  BY <1>1, <1>3, <1>4 DEF Next

-----------------------------------------------------------------------------
(* A page *)

\* A page's cursor never goes back, nor beyond the table; and every row after
\* the old cursor and up to the new one was shown or refused.
LEMMA PageIsWhole ==
  ASSUME NEW d, Consistent(d), Sound(d), NEW binding, NEW after \in Nat,
         after <= d.cursor, NEW pol, NEW sessions, NEW time
  PROVE  LET page == EventPage(d, binding, after, pol, sessions, time)
         IN  /\ page.next \in Nat
             /\ after <= page.next /\ page.next <= d.cursor
             /\ page.visible \cup page.refused \subseteq Nat
             /\ \A e \in Unread(d, after, time) :
                  e.cursor <= page.next \/ ~ page.more =>
                    e.cursor \in page.visible \cup page.refused
<1> DEFINE rows == Unread(d, after, time)
           permitted == {e \in rows : EventPermitted(d, binding, e, pol, sessions)}
           visible == {e \in permitted :
                         Cardinality({f \in permitted : f.cursor < e.cursor}) < PageLimit}
           passed == Passed(rows, visible, permitted)
           C == {e.cursor : e \in passed}
           page == EventPage(d, binding, after, pol, sessions, time)
<1>1. /\ page.visible = {e.cursor : e \in visible}
      /\ page.refused = {e.cursor : e \in passed \ permitted}
      /\ page.next = IF passed = {} THEN after ELSE Top(C)
      /\ page.more <=> visible # permitted
  BY DEF EventPage
<1>2. /\ d.cursor \in Nat /\ d.events \subseteq Event /\ IsFiniteSet(d.events)
      /\ \A e \in d.events : e.cursor \in Nat /\ e.cursor <= d.cursor
  BY DEF Consistent, DB, Event, Sound, Finite, EventsKeyed
<1>3. /\ visible \subseteq permitted /\ permitted \subseteq rows
      /\ passed = {e \in rows : \A f \in permitted \ visible : e.cursor < f.cursor}
      /\ \A e \in rows : e \in d.events /\ e.cursor > after
  BY DEF Passed, Unread
<1> HIDE DEF rows, permitted, visible, passed, page
<1>4. C \in SUBSET Nat /\ IsFiniteSet(C)
  <2>1. passed \subseteq d.events /\ IsFiniteSet(passed)
    BY <1>2, <1>3, FS_Subset
  <2> DEFINE h == [e \in passed |-> e.cursor]
  <2>2. h \in Surjection(passed, C)
    BY DEF Surjection
  <2>3. IsFiniteSet(C)
    <3> HIDE DEF h, C
    <3> QED  BY <2>1, <2>2, FS_Surjection
  <2> QED  BY <1>2, <2>1, <2>3
<1>5. \A e \in passed \cup rows :
        e \in rows /\ e.cursor \in Nat /\ e.cursor > after /\ e.cursor <= d.cursor
  BY <1>2, <1>3
<1>6. ASSUME passed # {}
      PROVE  /\ Top(C) \in Nat /\ Top(C) \in C
             /\ \A n \in C : n <= Top(C)
  <2>1. C # {} /\ C \in SUBSET Int
    BY <1>4, <1>6
  <2> HIDE DEF C
  <2>2. \E n \in C : \A m \in C : m <= n
    BY <1>4, <2>1, FiniteEnds
  <2> QED  BY <1>4, <2>2 DEF Top
<1>7. page.next \in Nat /\ after <= page.next /\ page.next <= d.cursor
  <2>1. CASE passed = {}
    BY <1>1, <1>2, <2>1
  <2>2. CASE passed # {}
    <3>1. PICK p \in passed : p.cursor = Top(C)
      BY <1>6, <2>2
    <3> HIDE DEF C
    <3> QED  BY <1>1, <1>2, <1>5, <2>2, <3>1
  <2> QED  BY <2>1, <2>2
<1>8. ASSUME NEW e \in rows, e.cursor <= page.next \/ ~ page.more
      PROVE  e \in passed
  <2>1. CASE ~ page.more
    BY <1>1, <1>3, <2>1
  <2>2. CASE e.cursor <= page.next
    <3>1. passed # {}
      BY <1>1, <1>5, <2>2
    <3>2. PICK p \in passed : p.cursor = Top(C)
      BY <1>6, <3>1
    <3>3. e.cursor <= p.cursor
      BY <1>1, <2>2, <3>1, <3>2
    <3>4. SUFFICES ASSUME NEW f \in permitted \ visible
                   PROVE  e.cursor < f.cursor
      BY <1>3
    <3>5. p.cursor < f.cursor /\ f \in rows
      BY <1>3
    <3> QED  BY <1>5, <3>3, <3>5
  <2> QED  BY <1>8, <2>1, <2>2
<1>9. ASSUME NEW e \in passed
      PROVE  e \in visible \/ e \in passed \ permitted
  <2>1. e \notin permitted \ visible
    <3> SUFFICES ASSUME e \in permitted \ visible
                 PROVE  FALSE
      OBVIOUS
    <3>1. e.cursor < e.cursor /\ e.cursor \in Nat
      BY <1>3, <1>5
    <3> QED  BY <3>1
  <2> QED  BY <2>1
<1>10. \A e \in rows : e.cursor <= page.next \/ ~ page.more =>
         e.cursor \in page.visible \cup page.refused
  BY <1>1, <1>8, <1>9
<1>11. page.visible \cup page.refused \subseteq Nat
  BY <1>1, <1>3, <1>5
<1> QED  BY <1>7, <1>10, <1>11 DEF rows, page

-----------------------------------------------------------------------------
(* The steps *)

\* What the phone has read stays read while the server goes on: the rows up to
\* its cursor are old rows, of the same owner and with the same expiry.
LEMMA ServerKeepsRead ==
  ASSUME TypedInv, Sound(db), ReadInv, [Next]_vars, TypedInv', reader' = reader
  PROVE  ReadInv'
<1>1. EventsKept(db, db') /\ now \in Nat /\ now' \in Nat /\ now <= now'
  BY EventsStay, TimePasses
<1>2. /\ db.cursor \in Nat /\ db'.cursor \in Nat
      /\ db.events \subseteq Event /\ db'.events \subseteq Event
  BY DEF TypedInv, Consistent, DB
<1>3. reader.upto \in Nat /\ reader.upto <= db.cursor
  BY DEF ReadInv, Reading
<1>4. reader'.upto <= db'.cursor
  BY <1>1, <1>2, <1>3 DEF EventsKept
<1>5. NothingIsSkipped'
  <2> SUFFICES ASSUME NEW e \in Unread(db', 0, now'), e.cursor <= reader.upto
               PROVE  e.cursor \in reader.seen \cup reader.refused
    BY DEF NothingIsSkipped
  <2>1. e \in db'.events /\ e.cursor \in Nat /\ e.expires \in Nat
    BY <1>2 DEF Unread, Event
  <2>2. PICK c \in db.events : SameEvent(c, e)
    BY <1>1, <1>2, <1>3, <2>1 DEF EventsKept
  <2>3. c \in Unread(db, 0, now)
    <3>1. e.owner = Reader /\ e.cursor > 0 /\ e.expires > now' /\ ~ e.cancelled
      BY DEF Unread
    <3>2. e.expires > now
      BY <1>1, <2>1, <3>1
    <3> QED  BY <2>2, <3>1, <3>2 DEF Unread, SameEvent
  <2>4. c.cursor <= reader.upto /\ c.cursor = e.cursor
    BY <2>2 DEF SameEvent
  <2> QED  BY <2>3, <2>4 DEF ReadInv, NothingIsSkipped
<1> QED  BY <1>4, <1>5 DEF ReadInv

LEMMA PageKeepsRead ==
  ASSUME TypedInv, Sound(db), ReadInv, NEW pol, NEW sessions,
         ReadPage(pol, sessions)
  PROVE  ReadInv'
<1> DEFINE page == EventPage(db, reader.binding, reader.cursor, pol, sessions, now)
<1>1. /\ db' = db /\ now' = now
      /\ reader' = [reader EXCEPT
                      !.cursor = page.next,
                      !.seen = @ \cup page.visible,
                      !.refused = @ \cup page.refused,
                      !.upto = IF page.more THEN page.next ELSE db.cursor]
  BY DEF ReadPage, vars, storeVars
<1>2. Consistent(db) /\ db.cursor \in Nat /\ db.events \subseteq Event
  BY DEF TypedInv, Consistent, DB
<1>3. /\ reader \in Reading
      /\ reader.cursor \in Nat /\ reader.upto \in Nat
      /\ reader.cursor <= reader.upto /\ reader.upto <= db.cursor
  BY DEF ReadInv, Reading
<1>4. /\ page.next \in Nat /\ reader.cursor <= page.next /\ page.next <= db.cursor
      /\ page.visible \cup page.refused \subseteq Nat
      /\ \A e \in Unread(db, reader.cursor, now) :
           e.cursor <= page.next \/ ~ page.more =>
             e.cursor \in page.visible \cup page.refused
  <2>1. reader.cursor <= db.cursor
    BY <1>2, <1>3
  <2> QED  BY <1>2, <1>3, <2>1, PageIsWhole
<1> HIDE DEF page
<1>5. /\ reader'.cursor = page.next
      /\ reader'.seen = reader.seen \cup page.visible
      /\ reader'.refused = reader.refused \cup page.refused
      /\ reader'.upto = IF page.more THEN page.next ELSE db.cursor
      /\ reader'.binding = reader.binding
  BY <1>1, <1>3 DEF Reading
<1>6. reader' \in Reading
  BY <1>1, <1>2, <1>3, <1>4 DEF Reading
<1>7. reader'.cursor <= reader'.upto /\ reader'.upto <= db'.cursor
  BY <1>1, <1>2, <1>4, <1>5
<1>8. NothingIsSkipped'
  <2> SUFFICES ASSUME NEW e \in Unread(db, 0, now), e.cursor <= reader'.upto
               PROVE  e.cursor \in reader'.seen \cup reader'.refused
    BY <1>1 DEF NothingIsSkipped, Unread
  <2>1. e.cursor \in Nat
    BY <1>2 DEF Unread, Event
  <2>2. CASE e.cursor <= reader.cursor
    <3>1. e.cursor <= reader.upto
      BY <1>3, <2>1, <2>2
    <3> QED  BY <1>5, <3>1 DEF ReadInv, NothingIsSkipped
  <2>3. CASE e.cursor > reader.cursor
    <3>1. e \in Unread(db, reader.cursor, now)
      BY <2>3 DEF Unread
    <3>2. e.cursor <= page.next \/ ~ page.more
      BY <1>5
    <3> QED  BY <1>4, <1>5, <3>1, <3>2
  <2> QED  BY <1>3, <2>1, <2>2, <2>3
<1> QED  BY <1>6, <1>7, <1>8 DEF ReadInv

\* A phone that begins again has read nothing.
LEMMA NewReader ==
  ASSUME TypedInv, NEW binding \in Bindings,
         reader' = [NoReader EXCEPT !.binding = binding], db' = db
  PROVE  ReadInv'
<1>1. /\ reader' \in Reading /\ reader'.cursor = 0 /\ reader'.upto = 0
  BY DEF NoReader, Reading
<1>2. db.cursor \in Nat /\ db.events \subseteq Event
  BY DEF TypedInv, Consistent, DB
<1>3. \A e \in Unread(db, 0, now') : e.cursor \in Nat /\ e.cursor > 0
  BY <1>2 DEF Unread, Event
<1>4. NothingIsSkipped'
  BY <1>1, <1>3 DEF NothingIsSkipped, Unread
<1> QED  BY <1>1, <1>2, <1>4 DEF ReadInv

LEMMA ReaderBegins ==
  ASSUME ReaderInit
  PROVE  HistoryInv /\ ReadInv
<1>1. HistoryInv /\ TypedInv
  BY InitialHistory DEF ReaderInit, HistoryInv, PushInv
<1>2. db.cursor \in Nat /\ db.events \subseteq Event
  BY <1>1 DEF TypedInv, Consistent, DB
<1>3. reader \in Reading /\ reader.cursor = 0 /\ reader.upto = 0
  BY DEF ReaderInit, NoReader, Reading, Bindings
<1>4. \A e \in Unread(db, 0, now) : e.cursor \in Nat /\ e.cursor > 0
  BY <1>2 DEF Unread, Event
<1>5. NothingIsSkipped
  BY <1>3, <1>4 DEF NothingIsSkipped
<1> QED  BY <1>1, <1>2, <1>3, <1>5 DEF ReadInv

LEMMA ReaderStep ==
  ASSUME HistoryInv, ReadInv, [ReaderNext]_<<vars, reader>>
  PROVE  HistoryInv' /\ ReadInv'
<1>1. [Next]_vars
  BY DEF ReaderNext, ReadStep, ReadAnew, ReadPage
<1>2. HistoryInv'
  BY <1>1, HistoryStep
<1>3. TypedInv /\ Sound(db) /\ TypedInv'
  BY <1>2 DEF HistoryInv, PushInv
<1>4. CASE reader' = reader
  BY <1>1, <1>2, <1>3, <1>4, ServerKeepsRead
<1>5. ASSUME NEW pol, NEW sessions, ReadPage(pol, sessions)
      PROVE  ReadInv'
  BY <1>3, <1>5, PageKeepsRead
<1>6. ASSUME NEW binding, ReadAnew(binding)
      PROVE  ReadInv'
  <2>1. binding \in Bindings
    BY <1>6 DEF ReadAnew
  <2>2. reader' = [NoReader EXCEPT !.binding = binding] /\ db' = db
    BY <1>6 DEF ReadAnew, vars, storeVars
  <2> QED  BY <1>3, <2>1, <2>2, NewReader
<1>7. reader' = reader \/ ReadStep
  BY DEF ReaderNext
<1> QED  BY <1>2, <1>4, <1>5, <1>6, <1>7 DEF ReadStep

-----------------------------------------------------------------------------
(* Theorems *)

\* Whatever is committed, pruned, cancelled, renewed or forbidden between two
\* pages and inside one, an event that can still be read was shown, or was
\* refused by the page that passed it, once the phone has read beyond it
\* (api.py, GET /events; Store.events).
THEOREM NothingStaysSkipped == ReaderSpec => []NothingIsSkipped
<1>1. ReaderInit => HistoryInv /\ ReadInv
  BY ReaderBegins
<1>2. HistoryInv /\ ReadInv /\ [ReaderNext]_<<vars, reader>> => HistoryInv' /\ ReadInv'
  BY ReaderStep
<1>3. ReadInv => NothingIsSkipped
  BY DEF ReadInv
<1> QED  BY <1>1, <1>2, <1>3, PTL DEF ReaderSpec

=============================================================================
