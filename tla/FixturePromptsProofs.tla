------------------------ MODULE FixturePromptsProofs ------------------------
(***************************************************************************)
(* The tasks of the gateway fixture, for every number of connections,      *)
(* sessions, questions and prompts: one prompt of a session runs, every    *)
(* answer finds the prompt that asked, the history has what its client was *)
(* told, and a prompt that ran says how it ended.                          *)
(*                                                                         *)
(* Every step changes the table of prompts in one of three ways: a prompt  *)
(* moves on, some prompts are cancelled, or a prompt is added.  Each part  *)
(* of the inductive invariant is shown to survive each of the three.       *)
(***************************************************************************)
EXTENDS FixturePrompts, SequenceTheorems, TLAPS

-----------------------------------------------------------------------------
(* The inductive invariant, of tables of prompts P, of current prompts A,  *)
(* of approvals R, of requests W, of histories M and of links L            *)

Early == {"new", "asking", "waiting", "expiring", "streaming"}
Late == {"ending", "stopping", "done"}

Of(p, c, s) == p.conn = c /\ p.session = s

\* A prompt of a connection that was neither stopped nor is over.
Runs(p) == p.at \notin {"stopping", "done"} /\ ~ p.stop /\ p.conn # None

\* What a prompt has said goes with where its task is.
Fits(p, w) ==
  /\ p.at \in Early => p.ends = <<>>
  /\ p.at \in {"ending", "stopping"} => p.ends # <<>>
  /\ p.at = "new" => ~ p.ran
  /\ p.conn = None => p.kind = "plain"
  /\ ~ w => p.at \notin {"asking", "ending", "stopping"}

Table(P, w) == P \in Seq(Prompt) /\ \A n \in DOMAIN P : Fits(P[n], w)

\* The prompt that runs is the current one; the current one is the last of its
\* session; and it has begun only after those before it were heard out.
OneCurrent(P, A) ==
  /\ A \in [Conn -> [Session -> 0 .. Len(P)]]
  /\ \A n \in DOMAIN P : Runs(P[n]) => A[P[n].conn][P[n].session] = n
  /\ \A c \in Conn, s \in Session :
       A[c][s] # 0 => /\ Of(P[A[c][s]], c, s)
                      /\ \A k \in DOMAIN P : Of(P[k], c, s) => k <= A[c][s]

Begun(P) ==
  \A m, k \in DOMAIN P :
    /\ Runs(P[m]) /\ P[m].at # "new"
    /\ k < m /\ Of(P[k], P[m].conn, P[m].session)
    => ~ P[k].stop

Waits(p) ==
  p.kind = "approval" /\ p.at = "waiting" /\ ~ p.stop /\ p.answer = "open"

\* What can be answered is asked by a prompt that lives.
Asked(P, R, W, w) ==
  /\ R \in [Conn -> [Session -> 0 .. Len(P)]]
  /\ W \subseteq DOMAIN P
  /\ \A n \in W : P[n].at # "done" /\ P[n].kind # "plain"
  /\ \A c \in Conn, s \in Session :
       R[c][s] # 0 => LET p == P[R[c][s]]
                      IN  /\ Of(p, c, s) /\ p.at # "done"
                          /\ p.kind = "approval" /\ p.ran
  /\ \A n \in DOMAIN P :
       ~ w /\ Waits(P[n]) => R[P[n].conn][P[n].session] = n

\* A history of prompts that told, if anything, first that they were completed.
Chronicle(P, h) ==
  /\ h \in Seq(DOMAIN P)
  /\ \A i, j \in DOMAIN h : h[i] = h[j] => i = j
  /\ \A i \in DOMAIN h : LET p == P[h[i]]
                         IN  /\ p.at \in Late
                             /\ p.ends # <<>> => p.ends[1] = "completed"

HoldsIt(M, s, n) == M[s] # None /\ \E i \in DOMAIN M[s] : M[s][i] = n

Kept(P, M, n) ==
  \/ HoldsIt(M, P[n].session, n)
  \/ \E t \in Session \ {P[n].session} : Branch[t] = P[n].session

Told(P, M) ==
  /\ DOMAIN M = Session
  /\ \A s \in Session : M[s] # None => Chronicle(P, M[s])
  /\ \A n \in DOMAIN P :
       P[n].conn # None /\ P[n].ends # <<>> /\ P[n].ends[1] = "completed"
         => Kept(P, M, n)

Heard(P, L) ==
  \A n \in DOMAIN P :
    /\ P[n].conn # None /\ P[n].at = "done" /\ P[n].ran
    /\ L[P[n].conn] = "open"
    => P[n].ends # <<>>

InOrder(P, A, R, W, M, L, w) ==
  /\ Table(P, w) /\ OneCurrent(P, A) /\ Begun(P)
  /\ Asked(P, R, W, w) /\ Told(P, M) /\ Heard(P, L)

PromptsInv ==
  /\ slow \in BOOLEAN
  /\ link \in [Conn -> {"open", "gone", "over", "lost"}]
  /\ InOrder(prompts, active, approvals, pending, messages, link, slow)

-----------------------------------------------------------------------------
(* Tables *)

LEMMA TableRows ==
  ASSUME NEW P \in Seq(Prompt)
  PROVE  /\ Len(P) \in Nat /\ DOMAIN P = 1 .. Len(P)
         /\ \A n \in DOMAIN P : P[n] \in Prompt
BY LenProperties, ElementOfSeq

LEMMA RowPut ==
  ASSUME NEW P \in Seq(Prompt), NEW n \in DOMAIN P, NEW q \in Prompt
  PROVE  LET Q == [P EXCEPT ![n] = q]
         IN  /\ Q \in Seq(Prompt) /\ Len(Q) = Len(P) /\ DOMAIN Q = DOMAIN P
             /\ Q[n] = q
             /\ \A k \in DOMAIN P : k # n => Q[k] = P[k]
BY TableRows, ExceptSeq

LEMMA RowAdded ==
  ASSUME NEW P \in Seq(Prompt), NEW q \in Prompt
  PROVE  LET Q == Append(P, q)
         IN  /\ Q \in Seq(Prompt) /\ Len(Q) = Len(P) + 1
             /\ DOMAIN Q = DOMAIN P \cup {Len(P) + 1}
             /\ Len(P) + 1 \notin DOMAIN P
             /\ Q[Len(P) + 1] = q
             /\ \A k \in DOMAIN P : Q[k] = P[k]
BY TableRows, AppendProperties

\* Cancelled, of a table.
Cancels(P, ns) ==
  [n \in DOMAIN P |-> IF n \in ns THEN CancelledOne(P[n]) ELSE P[n]]

LEMMA CancelRow ==
  ASSUME NEW p \in Prompt
  PROVE  LET q == CancelledOne(p)
         IN  /\ q \in Prompt
             /\ q.conn = p.conn /\ q.session = p.session /\ q.kind = p.kind
             /\ q.at = p.at /\ q.ends = p.ends /\ q.ran = p.ran
             /\ q.given = p.given
             /\ p.stop => q.stop
             /\ q.at # "done" => q.stop
BY DEF CancelledOne, Prompt

LEMMA RowsCancelled ==
  ASSUME NEW P \in Seq(Prompt), NEW ns
  PROVE  LET Q == Cancels(P, ns)
         IN  /\ Q \in Seq(Prompt) /\ Len(Q) = Len(P) /\ DOMAIN Q = DOMAIN P
             /\ \A k \in DOMAIN P :
                  Q[k] = IF k \in ns THEN CancelledOne(P[k]) ELSE P[k]
<1> DEFINE Q == Cancels(P, ns)
<1>1. /\ Len(P) \in Nat /\ DOMAIN P = 1 .. Len(P)
      /\ \A n \in DOMAIN P : P[n] \in Prompt
  BY TableRows
<1>2. \A k \in DOMAIN P : Q[k] = IF k \in ns THEN CancelledOne(P[k]) ELSE P[k]
  BY DEF Cancels
<1>3. \A k \in DOMAIN P : Q[k] \in Prompt
  BY <1>1, <1>2, CancelRow
<1>4. Q \in [1 .. Len(P) -> Prompt]
  BY <1>1, <1>3 DEF Cancels
<1>5. Q \in Seq(Prompt)
  BY <1>1, <1>4, SeqDef
<1>6. Len(Q) = Len(P)
  <2>1. DOMAIN Q = 1 .. Len(Q) /\ DOMAIN Q = 1 .. Len(P) /\ Len(Q) \in Nat
    BY <1>4, <1>5, LenProperties
  <2> HIDE DEF Q
  <2>2. /\ \A k \in Nat : k \in 1 .. Len(Q) <=> k \in 1 .. Len(P)
        /\ Len(Q) \in Nat /\ Len(P) \in Nat
    BY <1>1, <2>1
  <2> QED  BY <2>2
<1> QED  BY <1>1, <1>2, <1>4, <1>5, <1>6
-----------------------------------------------------------------------------
(* A prompt moves on *)

\* What every move of a prompt does to it: nothing stops by itself, a prompt
\* that was interrupted or is over does not run again, and what was said stays.
Moves(p, q, w) ==
  /\ p \in Prompt /\ q \in Prompt /\ Fits(p, w) /\ Fits(q, w)
  /\ Of(q, p.conn, p.session) /\ q.kind = p.kind
  /\ p.at # "done"
  /\ q.stop => p.stop
  /\ Runs(q) => Runs(p)
  /\ p.at \in Late => q.at \in Late
  /\ p.ran => q.ran
  /\ p.ends # <<>> => q.ends # <<>> /\ q.ends[1] = p.ends[1]

\* The current prompt is forgotten with its last step only.
Forgets(A, B, n, p, q) ==
  \/ B = A
  \/ /\ q.at = "done" /\ A[p.conn][p.session] = n /\ p.conn \in Conn
     /\ B = [A EXCEPT ![p.conn][p.session] = 0]

LEMMA TableMoves ==
  ASSUME NEW P, NEW w, Table(P, w), NEW n \in DOMAIN P, NEW q,
         Moves(P[n], q, w)
  PROVE  Table([P EXCEPT ![n] = q], w)
<1> DEFINE Q == [P EXCEPT ![n] = q]
<1>1. /\ Q \in Seq(Prompt) /\ DOMAIN Q = DOMAIN P /\ Q[n] = q
      /\ \A k \in DOMAIN P : k # n => Q[k] = P[k]
  BY RowPut DEF Table, Moves
<1> HIDE DEF Q
<1>2. \A k \in DOMAIN Q : Fits(Q[k], w)
  BY <1>1 DEF Table, Moves
<1> QED  BY <1>1, <1>2 DEF Table, Q

LEMMA CurrentMoves ==
  ASSUME NEW P, NEW w, Table(P, w), NEW A, OneCurrent(P, A),
         NEW n \in DOMAIN P, NEW q, Moves(P[n], q, w),
         NEW B, Forgets(A, B, n, P[n], q)
  PROVE  OneCurrent([P EXCEPT ![n] = q], B)
<1> DEFINE Q == [P EXCEPT ![n] = q]
<1>1. /\ Len(Q) = Len(P) /\ DOMAIN Q = DOMAIN P /\ Q[n] = q
      /\ \A k \in DOMAIN P : k # n => Q[k] = P[k]
      /\ Len(P) \in Nat /\ DOMAIN P = 1 .. Len(P)
      /\ \A k \in DOMAIN P : P[k] \in Prompt
  BY RowPut, TableRows DEF Table, Moves
<1> HIDE DEF Q
<1>2. /\ B \in [Conn -> [Session -> 0 .. Len(P)]]
      /\ \A c \in Conn, s \in Session :
           B[c][s] = A[c][s] \/ (q.at = "done" /\ B[c][s] = 0 /\ A[c][s] = n)
  <2>1. A \in [Conn -> [Session -> 0 .. Len(P)]] /\ P[n].session \in Session
    BY <1>1 DEF OneCurrent, Prompt
  <2>2. CASE B = A
    BY <2>1, <2>2
  <2>3. CASE /\ q.at = "done" /\ A[P[n].conn][P[n].session] = n
             /\ P[n].conn \in Conn
             /\ B = [A EXCEPT ![P[n].conn][P[n].session] = 0]
    BY <1>1, <2>1, <2>3
  <2> QED  BY <2>2, <2>3 DEF Forgets
<1>3. \A k \in DOMAIN P : Runs(Q[k]) => Runs(P[k])
  BY <1>1 DEF Moves
<1>4. \A k \in DOMAIN P : /\ Q[k].conn = P[k].conn
                          /\ Q[k].session = P[k].session
  BY <1>1 DEF Moves, Of
<1>5. ASSUME NEW k \in DOMAIN P, Runs(Q[k])
      PROVE  B[Q[k].conn][Q[k].session] = k
  <2>1. A[P[k].conn][P[k].session] = k
    BY <1>3, <1>5 DEF OneCurrent
  <2>2. P[k].conn \in Conn /\ P[k].session \in Session
    BY <1>1, <1>3, <1>5 DEF Runs, Prompt
  <2>3. k = n => q.at # "done"
    BY <1>1, <1>5 DEF Runs
  <2> QED  BY <1>2, <1>4, <2>1, <2>2, <2>3
<1>6. ASSUME NEW c \in Conn, NEW s \in Session, B[c][s] # 0
      PROVE  /\ Of(Q[B[c][s]], c, s)
             /\ \A k \in DOMAIN Q : Of(Q[k], c, s) => k <= B[c][s]
  <2>1. B[c][s] = A[c][s] /\ A[c][s] \in DOMAIN P
    BY <1>1, <1>2, <1>6
  <2>2. /\ Of(P[A[c][s]], c, s)
        /\ \A k \in DOMAIN P : Of(P[k], c, s) => k <= A[c][s]
    BY <1>6, <2>1 DEF OneCurrent
  <2> QED  BY <1>1, <1>4, <2>1, <2>2 DEF Of
<1>7. \A k \in DOMAIN Q : Runs(Q[k]) => B[Q[k].conn][Q[k].session] = k
  BY <1>1, <1>5
<1>8. B \in [Conn -> [Session -> 0 .. Len(Q)]]
  BY <1>1, <1>2
<1> QED  BY <1>6, <1>7, <1>8 DEF OneCurrent, Q

\* A prompt begins when no prompt before it is being stopped.
LEMMA BegunMoves ==
  ASSUME NEW P, NEW w, Table(P, w), Begun(P),
         NEW n \in DOMAIN P, NEW q, Moves(P[n], q, w),
         Runs(q) /\ q.at # "new" /\ P[n].at = "new"
           => \A m \in 1 .. n - 1 : ~ P[m].stop
  PROVE  Begun([P EXCEPT ![n] = q])
<1> DEFINE Q == [P EXCEPT ![n] = q]
<1>1. /\ DOMAIN Q = DOMAIN P /\ Q[n] = q
      /\ \A k \in DOMAIN P : k # n => Q[k] = P[k]
      /\ Len(P) \in Nat /\ DOMAIN P = 1 .. Len(P)
  BY RowPut, TableRows DEF Table, Moves
<1> HIDE DEF Q
<1>2. \A k \in DOMAIN P : /\ Runs(Q[k]) => Runs(P[k])
                          /\ Q[k].stop => P[k].stop
                          /\ Q[k].conn = P[k].conn
                          /\ Q[k].session = P[k].session
  BY <1>1 DEF Moves, Of
<1>3. ASSUME NEW m \in DOMAIN P, NEW k \in DOMAIN P,
             Runs(Q[m]), Q[m].at # "new", k < m,
             Of(Q[k], Q[m].conn, Q[m].session)
      PROVE  ~ Q[k].stop
  <2>1. CASE P[m].at = "new"
    <3>1. m = n /\ \A j \in 1 .. n - 1 : ~ P[j].stop
      BY <1>1, <1>3, <2>1
    <3> QED  BY <1>1, <1>2, <1>3, <3>1
  <2>2. CASE P[m].at # "new"
    BY <1>2, <1>3, <2>2 DEF Begun, Of
  <2> QED  BY <2>1, <2>2
<1> QED  BY <1>1, <1>3 DEF Begun, Q
\* The requests of a prompt that is over are withdrawn.
Withdraws(R, S, n, q) ==
  IF q.kind = "approval" /\ q.ran
  THEN S = [R EXCEPT ![q.conn][q.session] = 0] ELSE S = R

\* While the client reads, no other prompt of its session waits for an approval
\* when one asks for it or is over: it would be the current one, the other
\* would come before it, and would have been heard out before it began.
LEMMA NobodyElseWaits ==
  ASSUME NEW P, Table(P, FALSE), NEW A, OneCurrent(P, A), Begun(P),
         NEW n \in DOMAIN P, P[n].at # "done", P[n].conn \in Conn,
         NEW m \in DOMAIN P, Waits(P[m]), Of(P[m], P[n].conn, P[n].session)
  PROVE  m = n
<1>1. /\ Len(P) \in Nat /\ DOMAIN P = 1 .. Len(P)
      /\ P[n] \in Prompt /\ P[m] \in Prompt
  BY TableRows DEF Table
<1>2. Runs(P[m]) /\ P[m].at # "new"
  BY DEF Waits, Table, Fits, Runs
<1>3. A[P[n].conn][P[n].session] = m
  BY <1>2 DEF OneCurrent, Of
<1>4. n <= m
  BY <1>1, <1>3 DEF OneCurrent, Of, Prompt
<1>5. ASSUME n # m  PROVE  FALSE
  <2>1. n < m
    BY <1>1, <1>4, <1>5
  <2>2. ~ P[n].stop
    BY <1>2, <2>1 DEF Begun, Of
  <2>3. Runs(P[n])
    BY <1>1, <2>2, PromptsAssumption DEF Table, Fits, Runs, Prompt
  <2> QED  BY <1>3, <1>5, <2>3 DEF OneCurrent
<1> QED  BY <1>5

LEMMA AskedStays ==
  ASSUME NEW P, NEW w, Table(P, w), NEW R, NEW W, Asked(P, R, W, w),
         NEW n \in DOMAIN P, NEW q, Moves(P[n], q, w),
         q.at # "done", ~ w /\ Waits(q) => Waits(P[n]),
         NEW V, V \subseteq W
  PROVE  Asked([P EXCEPT ![n] = q], R, V, w)
<1> DEFINE Q == [P EXCEPT ![n] = q]
<1>1. /\ Len(Q) = Len(P) /\ DOMAIN Q = DOMAIN P /\ Q[n] = q
      /\ \A k \in DOMAIN P : k # n => Q[k] = P[k]
      /\ Len(P) \in Nat /\ DOMAIN P = 1 .. Len(P)
  BY RowPut, TableRows DEF Table, Moves
<1> HIDE DEF Q
<1>2. \A k \in DOMAIN P : /\ P[k].at # "done" => Q[k].at # "done"
                          /\ Q[k].conn = P[k].conn
                          /\ Q[k].session = P[k].session
                          /\ Q[k].kind = P[k].kind
                          /\ P[k].ran => Q[k].ran
                          /\ ~ w /\ Waits(Q[k]) => Waits(P[k])
  BY <1>1 DEF Moves, Of
<1>3. ASSUME NEW c \in Conn, NEW s \in Session, R[c][s] # 0
      PROVE  LET p == Q[R[c][s]]
             IN  /\ Of(p, c, s) /\ p.at # "done"
                 /\ p.kind = "approval" /\ p.ran
  <2>1. R[c][s] \in DOMAIN P
    BY <1>1, <1>3 DEF Asked
  <2> QED  BY <1>2, <1>3, <2>1 DEF Asked, Of
<1> QED  BY <1>1, <1>2, <1>3 DEF Asked, Q

LEMMA AskedNewly ==
  ASSUME NEW P, NEW w \in BOOLEAN, Table(P, w), NEW A, OneCurrent(P, A), Begun(P),
         NEW R, NEW W, Asked(P, R, W, w),
         NEW n \in DOMAIN P, NEW q, Moves(P[n], q, w),
         q.at # "done", q.ran, q.kind # "plain", q.conn \in Conn,
         NEW S, S = IF q.kind = "approval"
                    THEN [R EXCEPT ![q.conn][q.session] = n] ELSE R,
         NEW V, V \subseteq W \cup {n}
  PROVE  Asked([P EXCEPT ![n] = q], S, V, w)
<1> DEFINE Q == [P EXCEPT ![n] = q]
<1>1. /\ Len(Q) = Len(P) /\ DOMAIN Q = DOMAIN P /\ Q[n] = q
      /\ \A k \in DOMAIN P : k # n => Q[k] = P[k]
      /\ Len(P) \in Nat /\ DOMAIN P = 1 .. Len(P) /\ q \in Prompt
  BY RowPut, TableRows DEF Table, Moves
<1> HIDE DEF Q
<1>2. \A k \in DOMAIN P : /\ P[k].at # "done" => Q[k].at # "done"
                          /\ Q[k].conn = P[k].conn
                          /\ Q[k].session = P[k].session
                          /\ Q[k].kind = P[k].kind
                          /\ P[k].ran => Q[k].ran
  BY <1>1 DEF Moves, Of
<1>3. /\ S \in [Conn -> [Session -> 0 .. Len(P)]]
      /\ \A c \in Conn, s \in Session :
           S[c][s] = IF q.kind = "approval" /\ Of(q, c, s) THEN n ELSE R[c][s]
  BY <1>1 DEF Asked, Of, Prompt
<1>4. ASSUME NEW c \in Conn, NEW s \in Session, S[c][s] # 0
      PROVE  LET p == Q[S[c][s]]
             IN  /\ Of(p, c, s) /\ p.at # "done"
                 /\ p.kind = "approval" /\ p.ran
  <2>1. CASE q.kind = "approval" /\ Of(q, c, s)
    BY <1>1, <1>3, <2>1
  <2>2. CASE ~ (q.kind = "approval" /\ Of(q, c, s))
    <3>1. S[c][s] = R[c][s] /\ R[c][s] \in DOMAIN P
      BY <1>1, <1>3, <1>4, <2>2
    <3>2. LET p == P[R[c][s]]
          IN  /\ Of(p, c, s) /\ p.at # "done" /\ p.kind = "approval" /\ p.ran
      BY <1>4, <3>1 DEF Asked
    <3> QED  BY <1>2, <3>1, <3>2 DEF Of
  <2> QED  BY <2>1, <2>2
<1>5. ASSUME NEW m \in DOMAIN P, ~ w, Waits(Q[m])
      PROVE  S[Q[m].conn][Q[m].session] = m
  <2>1. CASE m = n
    BY <1>1, <1>3, <1>5, <2>1 DEF Waits, Of, Prompt
  <2>2. CASE m # n
    <3>1. Q[m] = P[m] /\ P[m] \in Prompt /\ R[P[m].conn][P[m].session] = m
      BY <1>1, <1>5, <2>2, TableRows DEF Asked, Table
    <3>2. P[m].conn \in Conn /\ P[m].session \in Session
      BY <1>5, <3>1 DEF Table, Fits, Waits, Prompt
    <3>3. ~ Of(P[m], P[n].conn, P[n].session)
      BY <1>5, <2>2, <3>1, NobodyElseWaits DEF Moves, Of
    <3> QED  BY <1>3, <3>1, <3>2, <3>3 DEF Of, Moves
  <2> QED  BY <2>1, <2>2
<1>6. \A k \in V : Q[k].at # "done" /\ Q[k].kind # "plain"
  BY <1>1, <1>2 DEF Asked
<1>7. V \subseteq DOMAIN Q
  BY <1>1 DEF Asked
<1> QED  BY <1>1, <1>3, <1>4, <1>5, <1>6, <1>7 DEF Asked, Q

LEMMA AskedEnds ==
  ASSUME NEW P, NEW w \in BOOLEAN, Table(P, w), NEW A, OneCurrent(P, A), Begun(P),
         NEW R, NEW W, Asked(P, R, W, w),
         NEW n \in DOMAIN P, NEW q, Moves(P[n], q, w), q.at = "done",
         NEW S, Withdraws(R, S, n, q)
  PROVE  Asked([P EXCEPT ![n] = q], S, W \ {n}, w)
<1> DEFINE Q == [P EXCEPT ![n] = q]
<1>1. /\ Len(Q) = Len(P) /\ DOMAIN Q = DOMAIN P /\ Q[n] = q
      /\ \A k \in DOMAIN P : k # n => Q[k] = P[k]
      /\ Len(P) \in Nat /\ DOMAIN P = 1 .. Len(P) /\ q \in Prompt
  BY RowPut, TableRows DEF Table, Moves
<1> HIDE DEF Q
<1>2. q.kind = "approval" => q.conn \in Conn
  BY <1>1 DEF Moves, Fits, Prompt
<1>3. /\ S \in [Conn -> [Session -> 0 .. Len(P)]]
      /\ \A c \in Conn, s \in Session :
           S[c][s] = IF q.kind = "approval" /\ q.ran /\ Of(q, c, s) THEN 0
                     ELSE R[c][s]
  <2>1. /\ R \in [Conn -> [Session -> 0 .. Len(P)]]
        /\ q.session \in Session
    BY <1>1 DEF Asked, Prompt
  <2>2. CASE q.kind = "approval" /\ q.ran
    <3>1. q.conn \in Conn /\ S = [R EXCEPT ![q.conn][q.session] = 0]
      BY <1>2, <2>2 DEF Withdraws
    <3> QED  BY <1>1, <2>1, <2>2, <3>1 DEF Of
  <2>3. CASE ~ (q.kind = "approval" /\ q.ran)
    BY <2>1, <2>3 DEF Withdraws
  <2> QED  BY <2>2, <2>3
<1>4. ASSUME NEW c \in Conn, NEW s \in Session, S[c][s] # 0
      PROVE  LET p == Q[S[c][s]]
             IN  /\ Of(p, c, s) /\ p.at # "done"
                 /\ p.kind = "approval" /\ p.ran
  <2>1. S[c][s] = R[c][s] /\ R[c][s] \in DOMAIN P
    BY <1>1, <1>3, <1>4
  <2>2. LET p == P[R[c][s]]
        IN  /\ Of(p, c, s) /\ p.at # "done" /\ p.kind = "approval" /\ p.ran
    BY <1>4, <2>1 DEF Asked
  <2>3. R[c][s] # n
    BY <1>1, <1>3, <1>4, <2>1, <2>2 DEF Moves, Of
  <2> QED  BY <1>1, <2>1, <2>2, <2>3
<1>5. ASSUME NEW m \in DOMAIN P, ~ w, Waits(Q[m])
      PROVE  S[Q[m].conn][Q[m].session] = m
  <2>1. m # n
    BY <1>1, <1>5 DEF Waits
  <2>2. Q[m] = P[m] /\ P[m] \in Prompt /\ R[P[m].conn][P[m].session] = m
    BY <1>1, <1>5, <2>1, TableRows DEF Asked, Table
  <2>3. P[m].conn \in Conn /\ P[m].session \in Session
    BY <1>5, <2>2 DEF Table, Fits, Waits, Prompt
  <2>4. Of(P[m], P[n].conn, P[n].session) => m = n
    BY ZenonT(40), <1>5, <2>2, <2>3, NobodyElseWaits DEF Moves, Of
  <2> QED  BY <1>3, <2>1, <2>2, <2>3, <2>4 DEF Of, Moves
<1>6. \A k \in W \ {n} : Q[k].at # "done" /\ Q[k].kind # "plain"
  BY <1>1 DEF Asked
<1>7. W \ {n} \subseteq DOMAIN Q
  BY <1>1 DEF Asked
<1> QED  BY <1>1, <1>3, <1>4, <1>5, <1>6, <1>7 DEF Asked, Q

LEMMA ToldMoves ==
  ASSUME NEW P, NEW w, Table(P, w), NEW M, Told(P, M),
         NEW n \in DOMAIN P, NEW q, Moves(P[n], q, w),
         P[n].ends = <<>> /\ q.ends # <<>> =>
           P[n].at \in Early /\ (q.conn = None \/ q.ends[1] # "completed")
  PROVE  Told([P EXCEPT ![n] = q], M)
<1> DEFINE Q == [P EXCEPT ![n] = q]
<1>1. /\ DOMAIN Q = DOMAIN P /\ Q[n] = q
      /\ \A k \in DOMAIN P : k # n => Q[k] = P[k]
  BY RowPut DEF Table, Moves
<1> HIDE DEF Q
<1>2. ASSUME NEW s \in Session, M[s] # None
      PROVE  Chronicle(Q, M[s])
  <2> DEFINE h == M[s]
  <2>1. Chronicle(P, h)
    BY <1>2 DEF Told
  <2> HIDE DEF h
  <2>2. \A i \in DOMAIN h : h[i] \in DOMAIN P
    BY <2>1, LenProperties, ElementOfSeq DEF Chronicle
  <2>3. ASSUME NEW i \in DOMAIN h
        PROVE  LET p == Q[h[i]]
               IN  /\ p.at \in Late
                   /\ p.ends # <<>> => p.ends[1] = "completed"
    BY <1>1, <2>1, <2>2 DEF Chronicle, Moves, Early, Late
  <2>4. Chronicle(Q, h)
    BY <1>1, <2>1, <2>3 DEF Chronicle
  <2> QED  BY <2>4 DEF h
<1>3. ASSUME NEW k \in DOMAIN P, Q[k].conn # None,
             Q[k].ends # <<>>, Q[k].ends[1] = "completed"
      PROVE  Kept(Q, M, k)
  <2>1. P[k].conn = Q[k].conn /\ P[k].session = Q[k].session
    BY <1>1 DEF Moves, Of
  <2>2. P[k].conn # None /\ P[k].ends # <<>> /\ P[k].ends[1] = "completed"
    BY <1>1, <1>3, <2>1 DEF Moves
  <2>3. Kept(P, M, k)
    BY <2>2 DEF Told
  <2> QED  BY <2>1, <2>3 DEF Kept
<1> QED  BY <1>1, <1>2, <1>3 DEF Told, Q

HistoryIn(M, s) == IF M[s] = None THEN <<>> ELSE M[s]

LEMMA ToldAnew ==
  ASSUME NEW P, NEW w, Table(P, w), NEW M, Told(P, M),
         NEW n \in DOMAIN P, NEW q, Moves(P[n], q, w),
         P[n].at = "streaming", q.at \in Late,
         q.ends # <<>> => q.ends[1] = "completed"
  PROVE  Told([P EXCEPT ![n] = q],
              [M EXCEPT ![q.session] = Append(HistoryIn(M, q.session), n)])
<1> DEFINE Q == [P EXCEPT ![n] = q]
           s == q.session
           h == HistoryIn(M, s)
           g == Append(h, n)
           N == [M EXCEPT ![s] = g]
<1>1. /\ DOMAIN Q = DOMAIN P /\ Q[n] = q
      /\ \A k \in DOMAIN P : k # n => Q[k] = P[k]
      /\ DOMAIN P \subseteq Nat
      /\ s \in Session /\ s = P[n].session
  BY RowPut, TableRows DEF Table, Moves, Of, Prompt
<1>2. Chronicle(P, h)
  <2>1. CASE M[s] = None
    <3>1. h = <<>> /\ <<>> \in Seq(DOMAIN P) /\ DOMAIN <<>> = {}
      BY <2>1, EmptySeq DEF HistoryIn
    <3> HIDE DEF h
    <3> QED  BY <3>1 DEF Chronicle
  <2>2. CASE M[s] # None
    BY <1>1, <2>2 DEF Told, HistoryIn
  <2> QED  BY <2>1, <2>2
<1>3. \A t \in Session : N[t] = IF t = s THEN g ELSE M[t]
  BY DEF Told
<1>4. DOMAIN N = Session
  BY DEF Told
<1> HIDE DEF Q, s, h, N
<1>5. /\ h \in Seq(DOMAIN P) /\ Len(h) \in Nat /\ DOMAIN h = 1 .. Len(h)
      /\ g \in Seq(DOMAIN P) /\ Len(g) = Len(h) + 1
      /\ DOMAIN g = DOMAIN h \cup {Len(h) + 1}
      /\ g[Len(h) + 1] = n /\ Len(h) + 1 \notin DOMAIN h
      /\ \A i \in DOMAIN h : g[i] = h[i] /\ h[i] \in DOMAIN P
  BY <1>2, AppendProperties, LenProperties, ElementOfSeq DEF Chronicle
<1> HIDE DEF g
<1>6. \A i \in DOMAIN h : h[i] # n
  BY <1>2 DEF Chronicle, Late
<1>7. ASSUME NEW f, Chronicle(P, f), \A i \in DOMAIN f : f[i] # n
      PROVE  Chronicle(Q, f)
  <2>1. \A i \in DOMAIN f : f[i] \in DOMAIN P
    BY <1>7, LenProperties, ElementOfSeq DEF Chronicle
  <2> QED  BY <1>1, <1>7, <2>1 DEF Chronicle
<1>8. Chronicle(Q, g)
  <2>1. \A i, j \in DOMAIN g : g[i] = g[j] => i = j
    BY <1>2, <1>5, <1>6 DEF Chronicle
  <2>2. \A i \in DOMAIN g : LET p == Q[g[i]]
                            IN  /\ p.at \in Late
                                /\ p.ends # <<>> => p.ends[1] = "completed"
    BY <1>1, <1>2, <1>5, <1>6 DEF Chronicle
  <2> QED  BY <1>1, <1>5, <2>1, <2>2 DEF Chronicle
<1>9. ASSUME NEW t \in Session, N[t] # None
      PROVE  Chronicle(Q, N[t])
  <2>1. CASE t = s
    BY <1>3, <1>8, <2>1
  <2>2. CASE t # s
    <3>1. N[t] = M[t] /\ Chronicle(P, M[t])
      BY <1>3, <1>9, <2>2 DEF Told
    <3>2. \A i \in DOMAIN M[t] : M[t][i] # n
      BY <3>1 DEF Chronicle, Late
    <3> QED  BY <1>7, <3>1, <3>2
  <2> QED  BY <2>1, <2>2
<1>10. g # None
  <2>1. g \in Seq(Nat)
    BY <1>1, <1>5, SeqMonotonic
  <2> QED  BY <2>1, PromptsAssumption
<1>11. ASSUME NEW k \in DOMAIN P, Q[k].conn # None,
              Q[k].ends # <<>>, Q[k].ends[1] = "completed"
       PROVE  Kept(Q, N, k)
  <2>1. CASE k = n
    <3>1. HoldsIt(N, s, n)
      BY <1>1, <1>3, <1>5, <1>10 DEF HoldsIt
    <3> QED  BY <1>1, <2>1, <3>1 DEF Kept, s
  <2>2. CASE k # n
    <3>1. Q[k] = P[k] /\ Kept(P, M, k)
      BY <1>1, <1>11, <2>2 DEF Told
    <3>2. HoldsIt(M, P[k].session, k) => HoldsIt(N, P[k].session, k)
      <4>1. P[k].session \in Session
        BY TableRows DEF Table, Prompt
      <4>2. CASE P[k].session = s
        <5>1. HoldsIt(M, s, k) => \E i \in DOMAIN h : h[i] = k
          BY DEF HoldsIt, HistoryIn, h
        <5> QED  BY ZenonT(40), <1>1, <1>3, <1>5, <1>10, <4>2, <5>1 DEF HoldsIt
      <4>3. CASE P[k].session # s
        BY <1>3, <4>1, <4>3 DEF HoldsIt
      <4> QED  BY <4>2, <4>3
    <3> QED  BY <3>1, <3>2 DEF Kept
  <2> QED  BY <2>1, <2>2
<1> QED  BY <1>1, <1>4, <1>9, <1>11 DEF Told, Q, N, g, h, s

LEMMA HeardMoves ==
  ASSUME NEW P, NEW w, Table(P, w), NEW L, Heard(P, L),
         NEW n \in DOMAIN P, NEW q, Moves(P[n], q, w),
         /\ q.conn # None /\ q.at = "done" /\ q.ran /\ L[q.conn] = "open"
         => q.ends # <<>>
  PROVE  Heard([P EXCEPT ![n] = q], L)
<1> DEFINE Q == [P EXCEPT ![n] = q]
<1>1. /\ DOMAIN Q = DOMAIN P /\ Q[n] = q
      /\ \A k \in DOMAIN P : k # n => Q[k] = P[k]
  BY RowPut DEF Table, Moves
<1> HIDE DEF Q
<1>2. Heard(Q, L)
  BY <1>1 DEF Heard
<1> QED  BY <1>2 DEF Q
-----------------------------------------------------------------------------
(* Prompts are cancelled *)

LEMMA CancelKeeps ==
  ASSUME NEW P, NEW A, NEW R, NEW W, NEW M, NEW L, NEW w,
         InOrder(P, A, R, W, M, L, w),
         NEW ns, \A k \in ns : k = 0 \/ \E c \in Conn, s \in Session : A[c][s] = k
  PROVE  InOrder(Cancels(P, ns), A, R, W, M, L, w)
<1> DEFINE Q == Cancels(P, ns)
<1> USE DEF InOrder
<1>1. /\ Q \in Seq(Prompt) /\ Len(Q) = Len(P) /\ DOMAIN Q = DOMAIN P
      /\ \A k \in DOMAIN P :
           Q[k] = IF k \in ns THEN CancelledOne(P[k]) ELSE P[k]
  BY RowsCancelled DEF Table
<1>2. /\ Len(P) \in Nat /\ DOMAIN P = 1 .. Len(P)
      /\ \A k \in DOMAIN P : P[k] \in Prompt
  BY TableRows DEF Table
<1> HIDE DEF Q
<1>3. \A k \in DOMAIN P :
        /\ Q[k].conn = P[k].conn /\ Q[k].session = P[k].session
        /\ Q[k].kind = P[k].kind /\ Q[k].at = P[k].at
        /\ Q[k].ends = P[k].ends /\ Q[k].ran = P[k].ran
        /\ P[k].stop => Q[k].stop
        /\ k \in ns /\ P[k].at # "done" => Q[k].stop
        /\ k \notin ns => Q[k] = P[k]
  BY <1>1, <1>2, CancelRow
<1>4. Table(Q, w)
  BY <1>1, <1>3 DEF Table, Fits
<1>5. \A k \in DOMAIN P : /\ Runs(Q[k]) => Runs(P[k])
                          /\ Waits(Q[k]) => Waits(P[k])
  BY <1>3 DEF Runs, Waits
<1>6. OneCurrent(Q, A)
  <2>1. \A k \in DOMAIN Q : Runs(Q[k]) => A[Q[k].conn][Q[k].session] = k
    BY <1>1, <1>3, <1>5 DEF OneCurrent
  <2>2. ASSUME NEW c \in Conn, NEW s \in Session, A[c][s] # 0
        PROVE  /\ Of(Q[A[c][s]], c, s)
               /\ \A k \in DOMAIN Q : Of(Q[k], c, s) => k <= A[c][s]
    <3>1. A[c][s] \in DOMAIN P
      BY <1>2, <2>2 DEF OneCurrent
    <3>2. /\ Of(P[A[c][s]], c, s)
          /\ \A k \in DOMAIN P : Of(P[k], c, s) => k <= A[c][s]
      BY <2>2 DEF OneCurrent
    <3> QED  BY <1>1, <1>3, <3>1, <3>2 DEF Of
  <2> QED  BY <1>1, <2>1, <2>2 DEF OneCurrent
<1>7. Begun(Q)
  <2> SUFFICES ASSUME NEW m \in DOMAIN P, NEW k \in DOMAIN P,
                      Runs(Q[m]), Q[m].at # "new", k < m,
                      Of(Q[k], Q[m].conn, Q[m].session), Q[k].stop
               PROVE  FALSE
    BY <1>1 DEF Begun
  <2>1. /\ Runs(P[m]) /\ P[m].at # "new"
        /\ Of(P[k], P[m].conn, P[m].session)
    BY <1>3, <1>5 DEF Of
  <2>2. ~ P[k].stop
    BY <2>1 DEF Begun
  <2>3. k \in ns
    BY <1>3, <2>2
  <2>4. PICK c \in Conn, s \in Session : A[c][s] = k
    BY <1>2, <2>3
  <2>5. Of(P[k], c, s) /\ A[P[m].conn][P[m].session] = m
    BY <1>2, <2>1, <2>4 DEF OneCurrent
  <2> QED  BY <1>2, <2>1, <2>4, <2>5 DEF Of
<1>8. Asked(Q, R, W, w)
  <2>1. ASSUME NEW c \in Conn, NEW s \in Session, R[c][s] # 0
        PROVE  LET p == Q[R[c][s]]
               IN  /\ Of(p, c, s) /\ p.at # "done"
                   /\ p.kind = "approval" /\ p.ran
    <3>1. R[c][s] \in DOMAIN P
      BY <1>2, <2>1 DEF Asked
    <3> QED  BY <1>3, <2>1, <3>1 DEF Asked, Of
  <2> QED  BY <1>1, <1>3, <1>5, <2>1 DEF Asked
<1>9. Told(Q, M)
  <2>1. ASSUME NEW s \in Session, M[s] # None
        PROVE  Chronicle(Q, M[s])
    <3> DEFINE h == M[s]
    <3>1. Chronicle(P, h)
      BY <2>1 DEF Told
    <3> HIDE DEF h
    <3>2. \A i \in DOMAIN h : h[i] \in DOMAIN P
      BY <3>1, LenProperties, ElementOfSeq DEF Chronicle
    <3>3. Chronicle(Q, h)
      BY <1>1, <1>3, <3>1, <3>2 DEF Chronicle
    <3> QED  BY <3>3 DEF h
  <2> QED  BY <1>1, <1>3, <2>1 DEF Told, Kept
<1>10. Heard(Q, L)
  BY <1>1, <1>3 DEF Heard
<1> QED  BY <1>4, <1>6, <1>7, <1>8, <1>9, <1>10 DEF Q

-----------------------------------------------------------------------------
(* A prompt is added: to a session in which none runs, or to no connection *)

LEMMA AddKeeps ==
  ASSUME NEW P, NEW A, NEW R, NEW W, NEW M, NEW L, NEW w,
         InOrder(P, A, R, W, M, L, w),
         NEW q \in Prompt, Fits(q, w), q.at \in {"new", "streaming"},
         NEW B,
         \/ q.conn = None /\ B = A
         \/ /\ q.conn \in Conn /\ q.at = "new"
            /\ B = [A EXCEPT ![q.conn][q.session] = Len(P) + 1]
            /\ \A k \in DOMAIN P : Of(P[k], q.conn, q.session) => ~ Runs(P[k])
  PROVE  InOrder(Append(P, q), B, R, W, M, L, w)
<1> DEFINE Q == Append(P, q)
           n == Len(P) + 1
<1> USE DEF InOrder
<1>1. /\ Q \in Seq(Prompt) /\ Len(Q) = Len(P) + 1
      /\ DOMAIN Q = DOMAIN P \cup {n} /\ n \notin DOMAIN P
      /\ Q[n] = q
      /\ \A k \in DOMAIN P : Q[k] = P[k]
  BY RowAdded DEF Table
<1>2. /\ Len(P) \in Nat /\ DOMAIN P = 1 .. Len(P) /\ DOMAIN Q = 1 .. Len(P) + 1
      /\ \A k \in DOMAIN P : P[k] \in Prompt
  BY <1>1, TableRows DEF Table
<1> HIDE DEF Q
<1>3. Table(Q, w)
  BY <1>1 DEF Table
<1>4. q.ends = <<>> /\ ~ Waits(q)
  BY DEF Fits, Early, Waits
<1>5. OneCurrent(Q, B)
  <2>0. q.session \in Session
    BY DEF Prompt
  <2>1. CASE q.conn = None /\ B = A
    <3>1. ~ Runs(q) /\ \A c \in Conn, s \in Session : ~ Of(q, c, s)
      BY <2>1, PromptsAssumption DEF Runs, Of
    <3>2. \A k \in DOMAIN Q : Runs(Q[k]) => B[Q[k].conn][Q[k].session] = k
      BY <1>1, <2>1, <3>1 DEF OneCurrent
    <3>3. ASSUME NEW c \in Conn, NEW s \in Session, A[c][s] # 0
          PROVE  /\ Of(Q[A[c][s]], c, s)
                 /\ \A k \in DOMAIN Q : Of(Q[k], c, s) => k <= A[c][s]
      <4>1. A[c][s] \in DOMAIN P
        BY <1>2, <3>3 DEF OneCurrent
      <4> QED  BY <1>1, <3>1, <3>3, <4>1 DEF OneCurrent
    <3>4. A \in [Conn -> [Session -> 0 .. Len(Q)]]
      BY <1>1, <1>2 DEF OneCurrent
    <3> QED  BY <2>1, <3>2, <3>3, <3>4 DEF OneCurrent
  <2>2. CASE q.conn \in Conn /\ q.at = "new"
             /\ B = [A EXCEPT ![q.conn][q.session] = Len(P) + 1]
             /\ \A k \in DOMAIN P : Of(P[k], q.conn, q.session) => ~ Runs(P[k])
    <3>1. /\ B \in [Conn -> [Session -> 0 .. Len(Q)]]
          /\ \A c \in Conn, s \in Session :
               B[c][s] = IF Of(q, c, s) THEN n ELSE A[c][s]
      BY <1>1, <1>2, <2>0, <2>2 DEF OneCurrent, Of
    <3>2. ASSUME NEW k \in DOMAIN Q, Runs(Q[k])
          PROVE  B[Q[k].conn][Q[k].session] = k
      <4>1. CASE k = n
        BY <1>1, <2>0, <2>2, <3>1, <4>1 DEF Of
      <4>2. CASE k \in DOMAIN P
        <5>1. Q[k] = P[k] /\ ~ Of(P[k], q.conn, q.session)
          BY <1>1, <2>2, <3>2, <4>2
        <5>2. P[k].conn \in Conn /\ P[k].session \in Session
          BY <1>2, <3>2, <4>2, <5>1 DEF Runs, Prompt
        <5>3. A[P[k].conn][P[k].session] = k
          BY <3>2, <4>2, <5>1 DEF OneCurrent
        <5>4. ~ Of(q, P[k].conn, P[k].session)
          BY <5>1 DEF Of
        <5> QED  BY <3>1, <5>1, <5>2, <5>3, <5>4
      <4> QED  BY <1>1, <4>1, <4>2
    <3>3. ASSUME NEW c \in Conn, NEW s \in Session, B[c][s] # 0
          PROVE  /\ Of(Q[B[c][s]], c, s)
                 /\ \A k \in DOMAIN Q : Of(Q[k], c, s) => k <= B[c][s]
      <4>1. CASE Of(q, c, s)
        BY <1>1, <1>2, <3>1, <4>1
      <4>2. CASE ~ Of(q, c, s)
        <5>1. B[c][s] = A[c][s] /\ A[c][s] \in DOMAIN P
          BY <1>2, <3>1, <3>3, <4>2 DEF OneCurrent
        <5> QED  BY <1>1, <3>3, <4>2, <5>1 DEF OneCurrent
      <4> QED  BY <4>1, <4>2
    <3> QED  BY <3>1, <3>2, <3>3 DEF OneCurrent
  <2> QED  BY <2>1, <2>2
<1>6. Begun(Q)
  <2> SUFFICES ASSUME NEW m \in DOMAIN Q, NEW k \in DOMAIN Q,
                      Runs(Q[m]), Q[m].at # "new", k < m,
                      Of(Q[k], Q[m].conn, Q[m].session)
               PROVE  ~ Q[k].stop
    BY DEF Begun
  <2>1. m # n
    BY <1>1, PromptsAssumption DEF Runs
  <2>2. m \in DOMAIN P /\ k \in DOMAIN P
    BY <1>1, <1>2, <2>1
  <2> QED  BY <1>1, <2>2 DEF Begun
<1>7. Asked(Q, R, W, w)
  <2>1. ASSUME NEW c \in Conn, NEW s \in Session, R[c][s] # 0
        PROVE  LET p == Q[R[c][s]]
               IN  /\ Of(p, c, s) /\ p.at # "done"
                   /\ p.kind = "approval" /\ p.ran
    <3>1. R[c][s] \in DOMAIN P
      BY <1>2, <2>1 DEF Asked
    <3> QED  BY <1>1, <2>1, <3>1 DEF Asked
  <2>2. R \in [Conn -> [Session -> 0 .. Len(Q)]]
    BY <1>1, <1>2 DEF Asked
  <2>3. W \subseteq DOMAIN Q /\ \A k \in W : Q[k].at # "done" /\ Q[k].kind # "plain"
    BY <1>1 DEF Asked
  <2>4. \A k \in DOMAIN Q : ~ w /\ Waits(Q[k]) => R[Q[k].conn][Q[k].session] = k
    BY <1>1, <1>4 DEF Asked
  <2> QED  BY <2>1, <2>2, <2>3, <2>4 DEF Asked
<1>8. Told(Q, M)
  <2>1. ASSUME NEW s \in Session, M[s] # None
        PROVE  Chronicle(Q, M[s])
    <3> DEFINE h == M[s]
    <3>1. Chronicle(P, h)
      BY <2>1 DEF Told
    <3> HIDE DEF h
    <3>2. \A i \in DOMAIN h : h[i] \in DOMAIN P
      BY <3>1, LenProperties, ElementOfSeq DEF Chronicle
    <3>3. h \in Seq(DOMAIN Q)
      BY <1>1, <3>1, SeqMonotonic DEF Chronicle
    <3>4. Chronicle(Q, h)
      BY <1>1, <3>1, <3>2, <3>3 DEF Chronicle
    <3> QED  BY <3>4 DEF h
  <2> QED  BY <1>1, <1>4, <2>1 DEF Told, Kept
<1>9. Heard(Q, L)
  BY <1>1 DEF Heard
<1> QED  BY <1>3, <1>5, <1>6, <1>7, <1>8, <1>9 DEF Q
-----------------------------------------------------------------------------
(* The steps of a task *)

\* A prompt with what its task learned, before its task goes on.
Tells(p, x) ==
  /\ x \in Prompt /\ Of(x, p.conn, p.session) /\ x.kind = p.kind
  /\ p.ran => x.ran
  /\ p.ends # <<>> => x.ends # <<>> /\ x.ends[1] = p.ends[1]

OverAs(x) ==
  [x EXCEPT !.at = "done", !.stop = FALSE, !.answer = "open", !.given = {}]

\* But for the history and what the client heard, the table is in order.
Ordered(P, A, R, W, w) ==
  Table(P, w) /\ OneCurrent(P, A) /\ Begun(P) /\ Asked(P, R, W, w)

LEMMA TaskRow ==
  ASSUME PromptsInv, NEW n \in DOMAIN prompts
  PROVE  /\ prompts[n] \in Prompt /\ Fits(prompts[n], slow)
         /\ n \in Nat /\ n >= 1
BY TableRows DEF PromptsInv, InOrder, Table

LEMMA FinallyMoves ==
  ASSUME PromptsInv, NEW n \in DOMAIN prompts, prompts[n].at # "done",
         prompts[n].conn # None, NEW x, Tells(prompts[n], x), Finally(n, x)
  PROVE  LET q == OverAs(x)
         IN  /\ Moves(prompts[n], q, slow)
             /\ prompts' = [prompts EXCEPT ![n] = q]
             /\ Ordered(prompts', active', approvals', pending', slow)
             /\ q.at = "done" /\ q.ran = x.ran /\ q.ends = x.ends
             /\ q.conn = prompts[n].conn
<1> DEFINE q == OverAs(x)
           p == prompts[n]
<1>1. p \in Prompt /\ Fits(p, slow) /\ p.conn \in Conn
  BY TaskRow DEF Prompt
<1>2. /\ q \in Prompt /\ q.at = "done" /\ q.ran = x.ran /\ q.ends = x.ends
      /\ q.conn = x.conn /\ q.session = x.session /\ q.kind = x.kind
      /\ ~ q.stop
  BY DEF OverAs, Tells, Prompt
<1>3. /\ prompts' = [prompts EXCEPT ![n] = q]
      /\ active' = IF active[x.conn][x.session] = n
                   THEN [active EXCEPT ![x.conn][x.session] = 0] ELSE active
      /\ Withdraws(approvals, approvals', n, q)
      /\ pending' = pending \ {n}
  BY <1>2 DEF Finally, OverAs, Withdraws
<1> HIDE DEF q
<1>4. Moves(p, q, slow)
  BY <1>1, <1>2 DEF Moves, Tells, Fits, Runs, Of, Early, Late
<1>5. Forgets(active, active', n, p, q)
  BY <1>1, <1>2, <1>3 DEF Forgets, Tells, Of
<1>6. /\ Table(prompts, slow) /\ OneCurrent(prompts, active) /\ Begun(prompts)
      /\ Asked(prompts, approvals, pending, slow) /\ slow \in BOOLEAN
  BY DEF PromptsInv, InOrder
<1>7. Table(prompts', slow)
  BY <1>3, <1>4, <1>6, TableMoves
<1>8. OneCurrent(prompts', active')
  BY <1>3, <1>4, <1>5, <1>6, CurrentMoves
<1>9. Begun(prompts')
  <2>1. ~ Runs(q)
    BY <1>2 DEF Runs
  <2> QED  BY <2>1, <1>3, <1>4, <1>6, BegunMoves
<1>10. Asked(prompts', approvals', pending', slow)
  BY <1>2, <1>3, <1>4, <1>6, AskedEnds
<1> QED  BY <1>2, <1>3, <1>4, <1>7, <1>8, <1>9, <1>10 DEF Ordered, q, Tells, Of

\* A move that leaves the current prompts, the approvals and the requests.
LEMMA GoesMoves ==
  ASSUME PromptsInv, NEW n \in DOMAIN prompts, NEW q,
         Moves(prompts[n], q, slow), q.at # "done",
         Runs(q) /\ q.at # "new" /\ prompts[n].at = "new"
           => \A m \in 1 .. n - 1 : ~ prompts[m].stop,
         ~ slow /\ Waits(q) => Waits(prompts[n]),
         prompts' = [prompts EXCEPT ![n] = q],
         pending' \subseteq pending, UNCHANGED <<active, approvals>>
  PROVE  Ordered(prompts', active', approvals', pending', slow)
<1>1. /\ Table(prompts, slow) /\ OneCurrent(prompts, active) /\ Begun(prompts)
      /\ Asked(prompts, approvals, pending, slow)
  BY DEF PromptsInv, InOrder
<1>2. Forgets(active, active', n, prompts[n], q)
  BY DEF Forgets
<1>3. Table(prompts', slow) /\ OneCurrent(prompts', active') /\ Begun(prompts')
  BY <1>1, <1>2, TableMoves, CurrentMoves, BegunMoves
<1>4. Asked(prompts', approvals', pending', slow)
  BY <1>1, AskedStays
<1> QED  BY <1>3, <1>4 DEF Ordered

\* What a move adds to the end of a prompt, with the history as it was.
LEMMA QuietMove ==
  ASSUME PromptsInv, NEW n \in DOMAIN prompts, NEW q,
         Moves(prompts[n], q, slow), prompts' = [prompts EXCEPT ![n] = q],
         Ordered(prompts', active', approvals', pending', slow),
         UNCHANGED <<slow, link, messages>>,
         prompts[n].ends = <<>> /\ q.ends # <<>> =>
           prompts[n].at \in Early /\ (q.conn = None \/ q.ends[1] # "completed"),
         /\ q.conn # None /\ q.at = "done" /\ q.ran /\ link[q.conn] = "open"
         => q.ends # <<>>
  PROVE  PromptsInv'
<1>1. /\ Table(prompts, slow) /\ Told(prompts, messages) /\ Heard(prompts, link)
  BY DEF PromptsInv, InOrder
<1>2. Told(prompts', messages') /\ Heard(prompts', link')
  BY <1>1, ToldMoves, HeardMoves
<1> QED  BY <1>2 DEF PromptsInv, InOrder, Ordered

LEMMA ToldMove ==
  ASSUME PromptsInv, NEW n \in DOMAIN prompts, NEW q,
         Moves(prompts[n], q, slow), prompts' = [prompts EXCEPT ![n] = q],
         Ordered(prompts', active', approvals', pending', slow),
         UNCHANGED <<slow, link>>, messages' = Extended(q.session, n),
         prompts[n].at = "streaming", q.at \in Late,
         q.ends # <<>> => q.ends[1] = "completed",
         /\ q.conn # None /\ q.at = "done" /\ q.ran /\ link[q.conn] = "open"
         => q.ends # <<>>
  PROVE  PromptsInv'
<1>1. /\ Table(prompts, slow) /\ Told(prompts, messages) /\ Heard(prompts, link)
  BY DEF PromptsInv, InOrder
<1>2. messages' = [messages EXCEPT ![q.session] =
                     Append(HistoryIn(messages, q.session), n)]
  BY DEF Extended, History, HistoryIn
<1>3. Told(prompts', messages')
  <2>1. Told([prompts EXCEPT ![n] = q],
             [messages EXCEPT ![q.session] =
                Append(HistoryIn(messages, q.session), n)])
    BY <1>1, ToldAnew
  <2> QED  BY <1>2, <2>1
<1>4. Heard(prompts', link')
  BY <1>1, HeardMoves
<1> QED  BY <1>3, <1>4 DEF PromptsInv, InOrder, Ordered

LEMMA StartKeeps ==
  ASSUME PromptsInv, NEW n \in DOMAIN prompts, prompts[n].conn # None, Start(n)
  PROVE  PromptsInv'
<1> DEFINE p == prompts[n]
           x == [p EXCEPT !.ran = TRUE]
<1>1. /\ p \in Prompt /\ Fits(p, slow) /\ p.at = "new" /\ ~ p.stop
      /\ p.ends = <<>> /\ p.conn \in Conn
      /\ \A m \in 1 .. n - 1 : ~ prompts[m].stop
      /\ UNCHANGED <<slow, link, messages>>
  BY TaskRow DEF Start, Fits, Early, Prompt
<1>2. /\ x \in Prompt /\ x.at = "new" /\ ~ x.stop /\ x.ends = <<>> /\ x.ran
      /\ x.conn = p.conn /\ x.session = p.session /\ x.kind = p.kind
      /\ Tells(p, x)
  BY <1>1 DEF Prompt, Tells, Of
<1>3. ASSUME NEW at \in {"streaming", "asking", "waiting", "expiring"},
             ~ slow => at # "asking"
      PROVE  LET q == [x EXCEPT !.at = at]
             IN  /\ Moves(p, q, slow) /\ q.at = at /\ q.ends = <<>> /\ q.ran
                 /\ q.conn = p.conn /\ q.kind = p.kind /\ q.session = p.session
  <2> DEFINE q == [x EXCEPT !.at = at]
  <2>1. /\ q \in Prompt /\ q.at = at /\ q.ends = <<>> /\ q.ran /\ ~ q.stop
        /\ q.conn = p.conn /\ q.kind = p.kind /\ q.session = p.session
    BY <1>1, <1>2 DEF Prompt
  <2> HIDE DEF q
  <2>2. Moves(p, q, slow)
    BY <1>1, <1>3, <2>1 DEF Moves, Fits, Runs, Of, Early, Late
  <2> QED  BY <2>1, <2>2 DEF q
<1> HIDE DEF x
<1>4. ASSUME p.kind = "plain", Goes(n, x, "streaming")
      PROVE  PromptsInv'
  <2> DEFINE q == [x EXCEPT !.at = "streaming"]
  <2>1. /\ Moves(p, q, slow) /\ q.at = "streaming" /\ q.ends = <<>>
        /\ prompts' = [prompts EXCEPT ![n] = q]
        /\ UNCHANGED <<active, approvals, pending>>
    BY <1>3, <1>4 DEF Goes
  <2> HIDE DEF q
  <2>2. Ordered(prompts', active', approvals', pending', slow)
    BY <1>1, <2>1, GoesMoves DEF Waits
  <2> QED  BY <1>1, <2>1, <2>2, QuietMove
<1>5. ASSUME ~ Hears(n), Finally(n, x)
      PROVE  PromptsInv'
  <2> DEFINE q == OverAs(x)
  <2>1. /\ Moves(p, q, slow) /\ prompts' = [prompts EXCEPT ![n] = q]
        /\ Ordered(prompts', active', approvals', pending', slow)
        /\ q.ends = <<>> /\ q.conn = p.conn
    BY <1>1, <1>2, <1>5, FinallyMoves
  <2> HIDE DEF q
  <2> QED  BY <1>1, <1>5, <2>1, QuietMove DEF Hears
<1>6. ASSUME p.kind # "plain",
             prompts' = [prompts EXCEPT ![n] = [x EXCEPT !.at = Asks(x)]],
             approvals' = IF x.kind = "approval"
                          THEN [approvals EXCEPT ![p.conn][p.session] = n]
                          ELSE approvals,
             pending' = IF x.kind = "approval" THEN pending
                        ELSE pending \cup {n},
             UNCHANGED active
      PROVE  PromptsInv'
  <2> DEFINE q == [x EXCEPT !.at = Asks(x)]
  <2>0. /\ Asks(x) \in {"asking", "waiting", "expiring"}
        /\ ~ slow => Asks(x) # "asking"
    BY DEF Asks, PromptsInv
  <2>1. /\ Moves(p, q, slow) /\ q.at # "done" /\ q.ends = <<>> /\ q.ran
        /\ q.conn = p.conn /\ q.kind = p.kind /\ q.session = p.session
    BY <1>3, <2>0
  <2>2. prompts' = [prompts EXCEPT ![n] = q]
    BY <1>6
  <2> HIDE DEF q
  <2>3. /\ Table(prompts, slow) /\ OneCurrent(prompts, active)
        /\ Begun(prompts) /\ Asked(prompts, approvals, pending, slow)
        /\ slow \in BOOLEAN
    BY DEF PromptsInv, InOrder
  <2>4. Forgets(active, active', n, p, q)
    BY <1>6 DEF Forgets
  <2>5. Table(prompts', slow) /\ OneCurrent(prompts', active') /\ Begun(prompts')
    BY <1>1, <2>1, <2>2, <2>3, <2>4, TableMoves, CurrentMoves, BegunMoves
  <2>6. Asked(prompts', approvals', pending', slow)
    <3>1. /\ approvals' = IF q.kind = "approval"
                          THEN [approvals EXCEPT ![q.conn][q.session] = n]
                          ELSE approvals
          /\ pending' \subseteq pending \cup {n}
          /\ q.kind # "plain" /\ q.conn \in Conn
      BY <1>1, <1>2, <1>6, <2>1
    <3> QED  BY <2>1, <2>2, <2>3, <3>1, AskedNewly
  <2>7. Ordered(prompts', active', approvals', pending', slow)
    BY <2>5, <2>6 DEF Ordered
  <2> QED  BY <1>1, <2>1, <2>2, <2>7, QuietMove
<1> QED  BY <1>1, <1>2, <1>4, <1>5, <1>6 DEF Start, x

\* A step to another place of the task, with nothing said.
LEMMA GoesKeeps ==
  ASSUME PromptsInv, NEW n \in DOMAIN prompts,
         NEW q, q = [prompts[n] EXCEPT !.at = q.at],
         prompts[n].at \in {"asking", "waiting", "expiring"}, ~ prompts[n].stop,
         q.at \in {"waiting", "expiring", "streaming"},
         q.at = "waiting" => prompts[n].at = "asking",
         prompts' = [prompts EXCEPT ![n] = q], pending' \subseteq pending,
         UNCHANGED <<active, approvals, slow, link, messages>>
  PROVE  PromptsInv'
<1> DEFINE p == prompts[n]
<1>1. p \in Prompt /\ Fits(p, slow)
  BY TaskRow
<1>2. /\ q \in Prompt /\ q.ends = p.ends /\ q.ran = p.ran /\ q.stop = p.stop
      /\ q.conn = p.conn /\ q.kind = p.kind /\ q.session = p.session
      /\ p.ends = <<>>
  BY <1>1 DEF Prompt, Fits, Early
<1>3. Moves(p, q, slow)
  BY <1>1, <1>2 DEF Moves, Fits, Runs, Of, Early, Late
<1>4. Ordered(prompts', active', approvals', pending', slow)
  BY <1>1, <1>3, GoesMoves DEF Waits, Fits
<1> QED  BY <1>2, <1>3, <1>4, QuietMove
\* A task that raises, or is over after it spoke, leaves the history as it is.
LEMMA OverKeeps ==
  ASSUME PromptsInv, NEW n \in DOMAIN prompts, prompts[n].at # "done",
         prompts[n].conn # None, NEW x, Tells(prompts[n], x), Finally(n, x),
         UNCHANGED <<slow, link, messages>>,
         prompts[n].ends = <<>> /\ x.ends # <<>> =>
           prompts[n].at \in Early /\ x.ends[1] # "completed",
         x.ran /\ Hears(n) => x.ends # <<>>
  PROVE  PromptsInv'
<1> DEFINE q == OverAs(x)
<1>1. /\ Moves(prompts[n], q, slow) /\ prompts' = [prompts EXCEPT ![n] = q]
      /\ Ordered(prompts', active', approvals', pending', slow)
      /\ q.ends = x.ends /\ q.ran = x.ran /\ q.conn = prompts[n].conn
  BY FinallyMoves
<1> HIDE DEF q
<1> QED  BY <1>1, QuietMove DEF Hears

LEMMA TellsItself ==
  ASSUME PromptsInv, NEW n \in DOMAIN prompts
  PROVE  Tells(prompts[n], prompts[n])
BY TaskRow DEF Tells, Of

LEMMA RaisesKeeps ==
  ASSUME PromptsInv, NEW n \in DOMAIN prompts, prompts[n].at # "done",
         prompts[n].conn # None, Raises(n),
         UNCHANGED <<slow, link, messages>>
  PROVE  PromptsInv'
BY TellsItself, OverKeeps DEF Raises

LEMMA AnswerSteps ==
  ASSUME PromptsInv, NEW n \in DOMAIN prompts, prompts[n].conn # None,
         RequestSent(n) \/ Answered(n) \/ Expire(n)
  PROVE  PromptsInv'
<1> DEFINE p == prompts[n]
<1>0. p \in Prompt
  BY TaskRow
<1>1. CASE RequestSent(n)
  <2> DEFINE q == [p EXCEPT !.at = IF p.kind = "expiring" THEN "expiring"
                                   ELSE "waiting"]
  <2>1. CASE Raises(n)
    BY <1>1, <2>1, RaisesKeeps DEF RequestSent
  <2>2. CASE Goes(n, p, q.at)
    <3>1. q.at \in {"waiting", "expiring"} /\ q = [p EXCEPT !.at = q.at]
      BY <1>0 DEF Prompt
    <3> HIDE DEF q
    <3>2. prompts' = [prompts EXCEPT ![n] = q]
      BY <2>2, <3>1 DEF Goes
    <3> QED  BY <1>1, <2>2, <3>1, <3>2, GoesKeeps DEF RequestSent, Goes
  <2>3. q.at = IF p.kind = "expiring" THEN "expiring" ELSE "waiting"
    BY <1>0 DEF Prompt
  <2> QED  BY <1>1, <2>1, <2>2, <2>3 DEF RequestSent
<1>2. CASE Answered(n)
  <2> DEFINE q == [p EXCEPT !.at = "streaming"]
  <2>1. CASE Raises(n)
    BY <1>2, <2>1, RaisesKeeps DEF Answered
  <2>2. CASE Goes(n, p, "streaming")
    <3>1. q.at = "streaming" /\ q = [p EXCEPT !.at = q.at]
      BY <1>0 DEF Prompt
    <3>2. prompts' = [prompts EXCEPT ![n] = q]
      BY <2>2 DEF Goes
    <3> HIDE DEF q
    <3> QED  BY <1>2, <2>2, <3>1, <3>2, GoesKeeps DEF Answered, Goes
  <2> QED  BY <1>2, <2>1, <2>2 DEF Answered
<1>3. CASE Expire(n)
  <2> DEFINE q == [p EXCEPT !.at = "streaming"]
  <2>1. CASE Raises(n)
    BY <1>3, <2>1, RaisesKeeps DEF Expire
  <2>2. CASE /\ prompts' = [prompts EXCEPT ![n].at = "streaming"]
             /\ pending' = pending \ {n}
             /\ UNCHANGED <<active, approvals>>
    <3>1. q.at = "streaming" /\ q = [p EXCEPT !.at = q.at]
      BY <1>0 DEF Prompt
    <3>2. prompts' = [prompts EXCEPT ![n] = q]
      BY <2>2
    <3> HIDE DEF q
    <3> QED  BY <1>3, <2>2, <3>1, <3>2, GoesKeeps DEF Expire
  <2> QED  BY <1>3, <2>1, <2>2 DEF Expire
<1> QED  BY <1>1, <1>2, <1>3

\* What a task says last before it is over.
LEMMA SaysLast ==
  ASSUME PromptsInv, NEW n \in DOMAIN prompts,
         NEW status \in {"completed", "interrupted"}
  PROVE  LET x == [prompts[n] EXCEPT !.ends = Append(@, status), !.stop = FALSE]
         IN  /\ Tells(prompts[n], x) /\ x.ends # <<>> /\ ~ x.stop
             /\ x.ends[1] = IF prompts[n].ends = <<>> THEN status
                            ELSE prompts[n].ends[1]
             /\ x.conn = prompts[n].conn /\ x.session = prompts[n].session
             /\ x.kind = prompts[n].kind /\ x.ran = prompts[n].ran
<1> DEFINE p == prompts[n]
           e == Append(p.ends, status)
           Ends2 == {"completed", "interrupted"}
           x == [p EXCEPT !.ends = e, !.stop = FALSE]
<1>1. p \in Prompt /\ p.ends \in Seq(Ends2)
  BY TaskRow DEF Prompt
<1>2. /\ e \in Seq(Ends2) /\ e # <<>>
      /\ e[1] = IF p.ends = <<>> THEN status ELSE p.ends[1]
  <2>1. /\ e \in Seq(Ends2) /\ e # <<>>
        /\ \A i \in 1 .. Len(p.ends) : e[i] = p.ends[i]
        /\ e[Len(p.ends) + 1] = status
    BY <1>1, AppendProperties
  <2>2. CASE p.ends = <<>>
    BY <2>1, <2>2
  <2>3. CASE p.ends # <<>>
    <3>1. 1 \in 1 .. Len(p.ends)
      BY <1>1, <2>3, EmptySeq
    <3> QED  BY <2>1, <2>3, <3>1
  <2> QED  BY <2>1, <2>2, <2>3
<1> HIDE DEF e
<1>3. /\ x \in Prompt /\ x.ends = e /\ ~ x.stop
      /\ x.conn = p.conn /\ x.session = p.session /\ x.kind = p.kind
      /\ x.ran = p.ran
  BY <1>1, <1>2 DEF Prompt
<1>4. x = [p EXCEPT !.ends = Append(@, status), !.stop = FALSE]
  BY DEF e
<1> HIDE DEF x
<1>5. Tells(p, x)
  BY <1>2, <1>3 DEF Tells, Of
<1> QED  BY <1>2, <1>3, <1>4, <1>5 DEF x

\* The last words are written, and the prompt is over or waits until they are out.
LEMMA EndsMoves ==
  ASSUME PromptsInv, NEW n \in DOMAIN prompts, prompts[n].at # "done",
         prompts[n].conn # None, NEW status \in {"completed", "interrupted"},
         NEW at \in {"ending", "stopping"}, Ends(n, status, at),
         at = "ending" => Runs(prompts[n]) /\ prompts[n].at = "streaming"
  PROVE  \E q : /\ Moves(prompts[n], q, slow)
                /\ prompts' = [prompts EXCEPT ![n] = q]
                /\ Ordered(prompts', active', approvals', pending', slow)
                /\ q.at \in Late /\ q.ends # <<>>
                /\ q.ends[1] = IF prompts[n].ends = <<>> THEN status
                               ELSE prompts[n].ends[1]
                /\ q.session = prompts[n].session
<1> DEFINE p == prompts[n]
           x == [p EXCEPT !.ends = Append(@, status), !.stop = FALSE]
<1>1. /\ Tells(p, x) /\ x.ends # <<>> /\ ~ x.stop
      /\ x.ends[1] = IF p.ends = <<>> THEN status ELSE p.ends[1]
      /\ x.conn = p.conn /\ x.session = p.session
      /\ x.kind = p.kind /\ x.ran = p.ran
  BY SaysLast
<1>2. p \in Prompt /\ Fits(p, slow)
  BY TaskRow
<1>3. IF slow THEN Goes(n, x, at) ELSE Finally(n, x)
  BY DEF Ends
<1> HIDE DEF x
<1>4. CASE ~ slow
  <2> DEFINE q == OverAs(x)
  <2>1. /\ Moves(p, q, slow) /\ prompts' = [prompts EXCEPT ![n] = q]
        /\ Ordered(prompts', active', approvals', pending', slow)
        /\ q.at = "done" /\ q.ends = x.ends
    BY <1>1, <1>3, <1>4, FinallyMoves
  <2> HIDE DEF q
  <2> QED  BY <1>1, <2>1 DEF Late, Moves, Of
<1>5. CASE slow
  <2> DEFINE q == [x EXCEPT !.at = at]
  <2>1. /\ q \in Prompt /\ q.at = at /\ q.ends = x.ends /\ ~ q.stop
        /\ q.conn = p.conn /\ q.session = p.session /\ q.kind = p.kind
        /\ q.ran = p.ran
    BY <1>1 DEF Prompt, Tells
  <2>2. /\ prompts' = [prompts EXCEPT ![n] = q]
        /\ UNCHANGED <<active, approvals, pending>>
    BY <1>3, <1>5 DEF Goes
  <2> HIDE DEF q
  <2>3. Moves(p, q, slow)
    BY <1>1, <1>2, <1>5, <2>1 DEF Moves, Tells, Fits, Runs, Of, Early, Late
  <2>4. Runs(q) /\ q.at # "new" /\ p.at = "new"
          => \A m \in 1 .. n - 1 : ~ prompts[m].stop
    BY <1>1, <1>2, <2>1, <2>3 DEF Fits, Runs, Moves, Early
  <2>5. Ordered(prompts', active', approvals', pending', slow)
    BY <2>1, <2>2, <2>3, <2>4, GoesMoves DEF Waits
  <2> QED  BY <1>1, <2>1, <2>2, <2>3, <2>5 DEF Late
<1> QED  BY <1>4, <1>5

LEMMA StreamEndsKeeps ==
  ASSUME PromptsInv, NEW n \in DOMAIN prompts, prompts[n].conn # None,
         StreamEnds(n)
  PROVE  PromptsInv'
<1> DEFINE p == prompts[n]
           s == p.session
<1>1. /\ p.at = "streaming" /\ ~ p.stop /\ p.ends = <<>> /\ Runs(p)
      /\ UNCHANGED <<slow, link>>
  BY TaskRow DEF StreamEnds, Fits, Early, Runs
<1>2. CASE messages' = Extended(s, n) /\ Ends(n, "completed", "ending")
  <2>1. PICK q : /\ Moves(p, q, slow) /\ prompts' = [prompts EXCEPT ![n] = q]
                 /\ Ordered(prompts', active', approvals', pending', slow)
                 /\ q.at \in Late /\ q.ends # <<>> /\ q.ends[1] = "completed"
                 /\ q.session = s
    BY <1>1, <1>2, EndsMoves
  <2> QED  BY <1>1, <1>2, <2>1, ToldMove
<1>3. CASE Raises(n) /\ messages' = Extended(s, n)
  <2> DEFINE q == OverAs(p)
  <2>1. /\ Moves(p, q, slow) /\ prompts' = [prompts EXCEPT ![n] = q]
        /\ Ordered(prompts', active', approvals', pending', slow)
        /\ q.at = "done" /\ q.ends = <<>> /\ q.conn = p.conn
    BY <1>1, <1>3, TellsItself, FinallyMoves DEF Raises
  <2> HIDE DEF q
  <2>2. q.session = s /\ q.at \in Late
    BY <2>1 DEF Moves, Of, Late
  <2>3. link[q.conn] # "open"
    BY <1>3, <2>1 DEF Raises, Hears
  <2> QED  BY <1>1, <1>3, <2>1, <2>2, <2>3, ToldMove
<1>4. CASE Raises(n) /\ UNCHANGED messages
  BY <1>1, <1>4, RaisesKeeps
<1> QED  BY <1>2, <1>3, <1>4 DEF StreamEnds

LEMMA EndSentKeeps ==
  ASSUME PromptsInv, NEW n \in DOMAIN prompts, prompts[n].conn # None, EndSent(n)
  PROVE  PromptsInv'
<1>1. prompts[n].at # "done" /\ prompts[n].ends # <<>>
  BY TaskRow DEF EndSent, Fits
<1> QED  BY <1>1, TellsItself, OverKeeps DEF EndSent

LEMMA InterruptedKeeps ==
  ASSUME PromptsInv, NEW n \in DOMAIN prompts, prompts[n].conn # None,
         Interrupted(n)
  PROVE  PromptsInv'
<1> DEFINE p == prompts[n]
<1>1. /\ p \in Prompt /\ Fits(p, slow) /\ p.at # "done"
      /\ UNCHANGED <<slow, link, messages>>
  BY TaskRow DEF Interrupted, Lives
<1>2. CASE Hears(n) /\ p.at \notin {"new", "stopping"}
  <2>1. Ends(n, "interrupted", "stopping")
    BY <1>2 DEF Interrupted
  <2>2. PICK q : /\ Moves(p, q, slow) /\ prompts' = [prompts EXCEPT ![n] = q]
                 /\ Ordered(prompts', active', approvals', pending', slow)
                 /\ q.at \in Late /\ q.ends # <<>>
                 /\ q.ends[1] = IF p.ends = <<>> THEN "interrupted" ELSE p.ends[1]
    BY <1>1, <2>1, EndsMoves
  <2>3. p.ends = <<>> => p.at \in Early /\ q.ends[1] # "completed"
    BY <1>1, <1>2, <2>2 DEF Fits, Early, Prompt
  <2> QED  BY <1>1, <2>2, <2>3, QuietMove
<1>3. CASE ~ (Hears(n) /\ p.at \notin {"new", "stopping"})
  <2>1. Finally(n, p)
    BY <1>3 DEF Interrupted
  <2>2. p.ran /\ Hears(n) => p.ends # <<>>
    BY <1>1, <1>3 DEF Fits
  <2> QED  BY <1>1, <2>1, <2>2, TellsItself, OverKeeps
<1> QED  BY <1>2, <1>3

LEMMA TaskKeeps ==
  ASSUME PromptsInv, NEW n, TaskStep(n)
  PROVE  PromptsInv'
<1>1. n \in DOMAIN prompts /\ prompts[n].conn # None
  BY DEF TaskStep
<1> QED  BY <1>1, StartKeeps, AnswerSteps, StreamEndsKeeps, EndSentKeeps,
            InterruptedKeeps DEF TaskStep

LEMMA CompletionKeeps ==
  ASSUME PromptsInv, NEW n \in DOMAIN prompts, CompletionEnds(n)
  PROVE  PromptsInv'
<1> DEFINE p == prompts[n]
<1>1. /\ p \in Prompt /\ Fits(p, slow) /\ p.conn = None /\ p.at = "streaming"
      /\ p.ends = <<>> /\ p.kind = "plain"
      /\ UNCHANGED <<slow, link, active, approvals, pending>>
  BY TaskRow DEF CompletionEnds, Fits, Early
<1>2. n \notin pending
  BY <1>1 DEF PromptsInv, InOrder, Asked
<1>3. ASSUME NEW q \in Prompt, q.at = "done", q.conn = None, q.kind = "plain",
             q.session = p.session, q.stop = p.stop, q.ran = p.ran,
             prompts' = [prompts EXCEPT ![n] = q]
      PROVE  /\ Moves(p, q, slow)
             /\ Ordered(prompts', active', approvals', pending', slow)
  <2>1. Moves(p, q, slow)
    BY <1>1, <1>3 DEF Moves, Fits, Of, Runs, Early, Late
  <2>2. /\ Table(prompts, slow) /\ OneCurrent(prompts, active)
        /\ Begun(prompts) /\ Asked(prompts, approvals, pending, slow)
        /\ slow \in BOOLEAN
    BY DEF PromptsInv, InOrder
  <2>3. /\ Forgets(active, active', n, p, q)
        /\ Withdraws(approvals, approvals', n, q) /\ pending' = pending \ {n}
    BY <1>1, <1>2, <1>3 DEF Forgets, Withdraws
  <2>4. Table(prompts', slow) /\ OneCurrent(prompts', active') /\ Begun(prompts')
    BY <1>1, <1>3, <2>1, <2>2, <2>3, TableMoves, CurrentMoves, BegunMoves
  <2>5. Asked(prompts', approvals', pending', slow)
    BY <1>3, <2>1, <2>2, <2>3, AskedEnds
  <2> QED  BY <2>1, <2>4, <2>5 DEF Ordered
<1>4. CASE /\ prompts' = [prompts EXCEPT ![n].at = "done",
                                         ![n].ends = <<"completed">>]
           /\ messages' = Extended(p.session, n) \/ UNCHANGED messages
  <2> DEFINE q == [p EXCEPT !.at = "done", !.ends = <<"completed">>]
  <2>1. /\ q \in Prompt /\ q.at = "done" /\ q.conn = None /\ q.kind = "plain"
        /\ q.session = p.session /\ q.stop = p.stop /\ q.ran = p.ran
        /\ q.ends # <<>> /\ q.ends[1] = "completed"
    <3>1. <<"completed">> \in Seq({"completed", "interrupted"})
      OBVIOUS
    <3> QED  BY <1>1, <3>1 DEF Prompt
  <2>2. prompts' = [prompts EXCEPT ![n] = q]
    BY <1>4
  <2> HIDE DEF q
  <2>3. /\ Moves(p, q, slow)
        /\ Ordered(prompts', active', approvals', pending', slow)
    BY <1>3, <2>1, <2>2
  <2>4. CASE messages' = Extended(p.session, n)
    BY <1>1, <2>1, <2>2, <2>3, <2>4, ToldMove DEF Late
  <2>5. CASE UNCHANGED messages
    BY <1>1, <2>1, <2>2, <2>3, <2>5, QuietMove DEF Early
  <2> QED  BY <1>4, <2>4, <2>5
<1>5. CASE prompts' = [prompts EXCEPT ![n].at = "done"] /\ UNCHANGED messages
  <2> DEFINE q == [p EXCEPT !.at = "done"]
  <2>1. /\ q \in Prompt /\ q.at = "done" /\ q.conn = None /\ q.kind = "plain"
        /\ q.session = p.session /\ q.stop = p.stop /\ q.ran = p.ran
        /\ q.ends = <<>>
    BY <1>1 DEF Prompt
  <2>2. prompts' = [prompts EXCEPT ![n] = q]
    BY <1>5
  <2> HIDE DEF q
  <2>3. /\ Moves(p, q, slow)
        /\ Ordered(prompts', active', approvals', pending', slow)
    BY <1>3, <2>1, <2>2
  <2> QED  BY <1>1, <1>5, <2>1, <2>2, <2>3, QuietMove
<1> QED  BY <1>4, <1>5 DEF CompletionEnds

-----------------------------------------------------------------------------
(* The requests *)

LEMMA CreateKeeps ==
  ASSUME PromptsInv, NEW s \in Session, Create(s)
  PROVE  PromptsInv'
<1> DEFINE N == [messages EXCEPT ![s] = <<>>]
<1>1. /\ Told(prompts, messages) /\ messages[s] = None /\ messages' = N
      /\ UNCHANGED <<slow, link, prompts, active, approvals, pending>>
  BY DEF Create, PromptsInv, InOrder
<1>2. DOMAIN N = Session
      /\ \A t \in Session : N[t] = IF t = s THEN <<>> ELSE messages[t]
  BY <1>1 DEF Told
<1>3. Chronicle(prompts, <<>>)
  BY EmptySeq DEF Chronicle
<1>4. \A n \in DOMAIN prompts : Kept(prompts, messages, n) => Kept(prompts, N, n)
  <2>1. \A n \in DOMAIN prompts : prompts[n].session \in Session
    BY TaskRow DEF Prompt
  <2> HIDE DEF N
  <2> QED  BY <1>1, <1>2, <2>1 DEF Kept, HoldsIt
<1> HIDE DEF N
<1>5. Told(prompts, N)
  BY <1>1, <1>2, <1>3, <1>4 DEF Told
<1> QED  BY <1>1, <1>5 DEF PromptsInv, InOrder

\* A branch that is replaced may lose what its client was told, and only that.
LEMMA BranchKeeps ==
  ASSUME PromptsInv, NEW s \in Session, BranchOff(s)
  PROVE  PromptsInv'
<1> DEFINE b == Branch[s]
           N == [messages EXCEPT ![b] = messages[s]]
<1>1. /\ Told(prompts, messages) /\ messages[s] # None /\ messages' = N
      /\ b \in Session
      /\ UNCHANGED <<slow, link, prompts, active, approvals, pending>>
  BY PromptsAssumption DEF BranchOff, PromptsInv, InOrder
<1>2. DOMAIN N = Session
      /\ \A t \in Session : N[t] = IF t = b THEN messages[s] ELSE messages[t]
  BY <1>1 DEF Told
<1>3. ASSUME NEW n \in DOMAIN prompts, Kept(prompts, messages, n)
      PROVE  Kept(prompts, N, n)
  <2>1. prompts[n].session \in Session
    BY TaskRow DEF Prompt
  <2>2. CASE prompts[n].session = b /\ s # b
    BY <1>1, <2>2 DEF Kept
  <2>3. CASE ~ (prompts[n].session = b /\ s # b)
    <3>1. N[prompts[n].session] = messages[prompts[n].session]
      BY <1>2, <2>1, <2>3
    <3> HIDE DEF N
    <3> QED  BY <1>3, <3>1 DEF Kept, HoldsIt
  <2> QED  BY <2>2, <2>3
<1> HIDE DEF N
<1>4. Told(prompts, N)
  BY <1>1, <1>2, <1>3 DEF Told
<1> QED  BY <1>1, <1>4 DEF PromptsInv, InOrder

LEMMA CancelledIs ==
  ASSUME NEW ns
  PROVE  Cancelled(ns) = Cancels(prompts, ns)
BY DEF Cancelled, Cancels

LEMMA InterruptKeeps ==
  ASSUME PromptsInv, NEW c \in Conn, NEW s \in Session, Interrupt(c, s)
  PROVE  PromptsInv'
<1>1. /\ prompts' = Cancels(prompts, {active[c][s]})
      /\ UNCHANGED <<slow, link, active, approvals, pending, messages>>
  BY CancelledIs DEF Interrupt
<1>2. InOrder(Cancels(prompts, {active[c][s]}), active, approvals, pending,
              messages, link, slow)
  BY CancelKeeps DEF PromptsInv
<1> QED  BY <1>1, <1>2 DEF PromptsInv

LEMMA SubmitKeeps ==
  ASSUME PromptsInv, NEW c \in Conn, NEW s \in Session, NEW kind \in Kinds,
         Submit(c, s, kind)
  PROVE  PromptsInv'
<1> DEFINE q == NewPrompt(c, s, kind)
           ns == {active[c][s]}
           P == Cancels(prompts, ns)
           B == [active EXCEPT ![c][s] = Len(prompts) + 1]
<1>1. /\ prompts' = Append(P, q) /\ active' = B
      /\ UNCHANGED <<slow, link, approvals, pending, messages>>
  BY CancelledIs DEF Submit
<1>2. InOrder(P, active, approvals, pending, messages, link, slow)
  BY CancelKeeps DEF PromptsInv
<1>3. /\ q \in Prompt /\ Fits(q, slow) /\ q.at = "new" /\ q.conn = c
      /\ q.session = s
  <2>1. q \in Prompt
    BY PromptsAssumption, EmptySeq DEF NewPrompt, Prompt
  <2>2. Fits(q, slow) /\ q.at = "new" /\ q.conn = c /\ q.session = s
    BY PromptsAssumption DEF NewPrompt, Fits, Early
  <2> QED  BY <2>1, <2>2
<1>4. /\ Len(P) = Len(prompts) /\ DOMAIN P = DOMAIN prompts
      /\ \A k \in DOMAIN prompts :
           P[k] = IF k \in ns THEN CancelledOne(prompts[k]) ELSE prompts[k]
  BY RowsCancelled DEF PromptsInv, InOrder, Table
<1>5. ASSUME NEW k \in DOMAIN P, Of(P[k], c, s)
      PROVE  ~ Runs(P[k])
  <2>1. prompts[k] \in Prompt
    BY <1>4, TaskRow
  <2>2. CASE k \in ns
    <3>1. LET x == CancelledOne(prompts[k]) IN x.at # "done" => x.stop
      BY <2>1, CancelRow
    <3> QED  BY <1>4, <2>2, <3>1 DEF Runs
  <2>3. CASE k \notin ns
    BY <1>4, <1>5, <2>3 DEF PromptsInv, InOrder, OneCurrent, Of
  <2> QED  BY <2>2, <2>3
<1> HIDE DEF q, P, ns, B
<1>6. B = [active EXCEPT ![q.conn][q.session] = Len(P) + 1]
  BY <1>3, <1>4 DEF B
<1>7. InOrder(Append(P, q), B, approvals, pending, messages, link, slow)
  BY <1>2, <1>3, <1>5, <1>6, AddKeeps
<1> QED  BY <1>1, <1>7 DEF PromptsInv

\* An answer moves nothing but the place it is kept in.
LEMMA AnswerKeeps ==
  ASSUME PromptsInv, NEW n \in DOMAIN prompts, prompts[n].at # "done",
         NEW answer \in {"given", prompts[n].answer}, NEW given \in SUBSET Question,
         prompts' = [prompts EXCEPT
                       ![n] = [@ EXCEPT !.answer = answer, !.given = given]],
         UNCHANGED <<slow, link, active, approvals, pending, messages>>
  PROVE  PromptsInv'
<1> DEFINE p == prompts[n]
           q == [p EXCEPT !.answer = answer, !.given = given]
<1>1. p \in Prompt /\ Fits(p, slow)
  BY TaskRow
<1>2. /\ q \in Prompt /\ q.at = p.at /\ q.conn = p.conn /\ q.kind = p.kind
      /\ q.session = p.session /\ q.stop = p.stop /\ q.ran = p.ran
      /\ q.ends = p.ends /\ q.answer = answer
  BY <1>1 DEF Prompt
<1>3. prompts' = [prompts EXCEPT ![n] = q]
  OBVIOUS
<1> HIDE DEF q
<1>4. Moves(p, q, slow)
  BY <1>1, <1>2 DEF Moves, Fits, Of, Runs, Early, Late
<1>5. Waits(q) => Waits(p)
  BY <1>2 DEF Waits
<1>6. /\ q.at # "done"
      /\ ~ (q.at # "new" /\ p.at = "new")
      /\ ~ (p.ends = <<>> /\ q.ends # <<>>)
  BY <1>2
<1>7. /\ pending' \subseteq pending /\ UNCHANGED <<active, approvals>>
      /\ UNCHANGED <<slow, link, messages>>
  OBVIOUS
<1> HIDE DEF p
<1>8. p = prompts[n]
  BY DEF p
<1>9. Ordered(prompts', active', approvals', pending', slow)
  BY <1>3, <1>4, <1>5, <1>6, <1>7, <1>8, GoesMoves
<1> QED  BY <1>3, <1>4, <1>6, <1>7, <1>8, <1>9, QuietMove

LEMMA ResolveKeeps ==
  ASSUME PromptsInv, NEW n \in DOMAIN prompts, prompts[n].at # "done",
         NEW given \in SUBSET Question, Resolve(n, given)
  PROVE  PromptsInv'
<1>1. prompts' = [prompts EXCEPT
                    ![n] = [@ EXCEPT !.answer = "given", !.given = given]]
  BY DEF Resolve
<1> QED  BY <1>1, AnswerKeeps DEF Resolve

LEMMA ApproveKeeps ==
  ASSUME PromptsInv, NEW c \in Conn, NEW s \in Session, Approve(c, s)
  PROVE  PromptsInv'
<1> DEFINE n == approvals[c][s]
<1>1. n \in DOMAIN prompts /\ prompts[n].at # "done" /\ Resolve(n, {})
  <2>1. DOMAIN prompts = 1 .. Len(prompts) /\ Len(prompts) \in Nat
    BY TableRows DEF PromptsInv, InOrder, Table
  <2> QED  BY <2>1 DEF PromptsInv, InOrder, Asked, Approve
<1> HIDE DEF n
<1> QED  BY <1>1, ResolveKeeps

LEMMA RespondKeeps ==
  ASSUME PromptsInv, NEW c \in Conn, NEW n \in pending,
         Respond(c, n) \/ \E q \in Question : AnswerQuestion(c, n, q)
  PROVE  PromptsInv'
<1>1. n \in DOMAIN prompts /\ prompts[n].at # "done"
  BY DEF PromptsInv, InOrder, Asked
<1>2. prompts[n].given \in SUBSET Question
  BY <1>1, TaskRow DEF Prompt
<1>3. CASE Respond(c, n)
  BY <1>1, <1>2, <1>3, ResolveKeeps DEF Respond
<1>4. ASSUME NEW q \in Question, AnswerQuestion(c, n, q)
      PROVE  PromptsInv'
  <2> DEFINE given == prompts[n].given \cup {q}
  <2>1. given \in SUBSET Question
    BY <1>2
  <2>2. CASE Resolve(n, given)
    BY <1>1, <2>1, <2>2, ResolveKeeps
  <2>3. CASE /\ prompts' = [prompts EXCEPT ![n].given = given]
             /\ UNCHANGED <<slow, link, active, approvals, pending, messages>>
    <3> HIDE DEF given
    <3>1. prompts[n] \in Prompt
      BY <1>1, TaskRow
    <3>2. [prompts[n] EXCEPT !.given = given]
            = [prompts[n] EXCEPT !.answer = prompts[n].answer, !.given = given]
      BY <3>1 DEF Prompt
    <3>3. prompts' = [prompts EXCEPT
                        ![n] = [@ EXCEPT !.answer = prompts[n].answer,
                                         !.given = given]]
      BY <2>3, <3>2
    <3> QED  BY <1>1, <2>1, <2>3, <3>3, AnswerKeeps
  <2> QED  BY <1>4, <2>2, <2>3 DEF AnswerQuestion
<1> QED  BY <1>3, <1>4

-----------------------------------------------------------------------------
(* The connections, and the streams outside them *)

\* A connection that was open once and is not any more is not waited for.
LEMMA LinkKeeps ==
  ASSUME PromptsInv, NEW c \in Conn, NEW now \in {"gone", "over", "lost"},
         link' = [link EXCEPT ![c] = now],
         NEW P, InOrder(P, active, approvals, pending, messages, link, slow),
         prompts' = P,
         UNCHANGED <<slow, active, approvals, pending, messages>>
  PROVE  PromptsInv'
<1>1. /\ link' \in [Conn -> {"open", "gone", "over", "lost"}]
      /\ \A d \in Conn : link'[d] = "open" => link[d] = "open"
  BY DEF PromptsInv
<1>2. Heard(prompts', link')
  <2> SUFFICES ASSUME NEW n \in DOMAIN P, P[n].conn # None, P[n].at = "done",
                      P[n].ran, link'[P[n].conn] = "open"
               PROVE  P[n].ends # <<>>
    BY DEF Heard
  <2>1. P[n].conn \in Conn
    BY TableRows DEF InOrder, Table, Prompt
  <2> QED  BY <1>1, <2>1 DEF InOrder, Heard
<1> QED  BY <1>1, <1>2 DEF PromptsInv, InOrder

LEMMA ConnectionKeeps ==
  ASSUME PromptsInv, NEW c \in Conn, Drop(c) \/ Close(c) \/ LossNoticed(c)
  PROVE  PromptsInv'
<1>0. InOrder(prompts, active, approvals, pending, messages, link, slow)
  BY DEF PromptsInv
<1>1. CASE Drop(c)
  BY <1>0, <1>1, LinkKeeps DEF Drop
<1>2. CASE HandlerRaises(c)
  BY <1>0, <1>2, LinkKeeps DEF HandlerRaises
<1>3. CASE CleanUp(c)
  <2> DEFINE ns == Current(c)
  <2>1. \A k \in ns : k = 0 \/ \E d \in Conn, s \in Session : active[d][s] = k
    BY DEF Current
  <2>2. prompts' = Cancels(prompts, ns)
    BY <1>3, CancelledIs DEF CleanUp
  <2> HIDE DEF ns
  <2>3. InOrder(Cancels(prompts, ns), active, approvals, pending, messages,
                link, slow)
    BY <1>0, <2>1, CancelKeeps
  <2> QED  BY <1>3, <2>2, <2>3, LinkKeeps DEF CleanUp
<1> QED  BY <1>1, <1>2, <1>3 DEF Close, LossNoticed

LEMMA CompleteKeeps ==
  ASSUME PromptsInv, NEW s \in Session, Complete(s)
  PROVE  PromptsInv'
<1> DEFINE q == [NewPrompt(None, s, "plain") EXCEPT !.at = "streaming",
                                                    !.ran = TRUE]
<1>1. /\ prompts' = Append(prompts, q)
      /\ UNCHANGED <<slow, link, active, approvals, pending, messages>>
  BY DEF Complete
<1>2. q = [conn |-> None, session |-> s, kind |-> "plain", at |-> "streaming",
           stop |-> FALSE, answer |-> "open", given |-> {}, ends |-> <<>>,
           ran |-> TRUE]
  <2> DEFINE z == [conn |-> None, session |-> s, kind |-> "plain", at |-> "new",
                   stop |-> FALSE, answer |-> "open", given |-> {},
                   ends |-> <<>>, ran |-> FALSE]
  <2>1. NewPrompt(None, s, "plain") = z
    BY Zenon DEF NewPrompt
  <2>2. q = [z EXCEPT !.at = "streaming", !.ran = TRUE]
    BY <2>1, Zenon
  <2> HIDE DEF q
  <2> QED  BY <2>2
<1> HIDE DEF q
<1>3. q \in Prompt
  BY <1>2, EmptySeq DEF Prompt, KindNames
<1>4. Fits(q, slow) /\ q.at = "streaming" /\ q.conn = None
  BY <1>2 DEF Fits, Early
<1>5. InOrder(Append(prompts, q), active, approvals, pending, messages, link,
              slow)
  BY <1>3, <1>4, AddKeeps DEF PromptsInv
<1> QED  BY <1>1, <1>5 DEF PromptsInv

-----------------------------------------------------------------------------
(* The invariant *)

LEMMA PromptsInit ==
  Init => PromptsInv
<1> SUFFICES ASSUME Init  PROVE  PromptsInv
  OBVIOUS
<1>1. /\ prompts = <<>> /\ DOMAIN prompts = {} /\ Len(prompts) = 0
      /\ <<>> \in Seq(Prompt)
  BY EmptySeq DEF Init
<1>2. Table(prompts, slow) /\ Begun(prompts) /\ Heard(prompts, link)
  BY <1>1 DEF Table, Begun, Heard
<1>3. OneCurrent(prompts, active)
  BY <1>1 DEF Init, OneCurrent
<1>4. Asked(prompts, approvals, pending, slow)
  BY <1>1 DEF Init, Asked
<1>5. Told(prompts, messages)
  <2>1. Chronicle(prompts, <<>>)
    BY EmptySeq DEF Chronicle
  <2> QED  BY <1>1, <2>1 DEF Init, Told
<1> QED  BY <1>2, <1>3, <1>4, <1>5 DEF Init, PromptsInv, InOrder

LEMMA PromptsNext ==
  ASSUME PromptsInv, [Next]_vars
  PROVE  PromptsInv'
<1>1. ASSUME NEW n \in DOMAIN prompts, TaskStep(n) \/ CompletionEnds(n)
      PROVE  PromptsInv'
  BY <1>1, TaskKeeps, CompletionKeeps
<1>2. ASSUME NEW c \in Conn, RequestStep(c)
      PROVE  PromptsInv'
  BY <1>2, CreateKeeps, BranchKeeps, InterruptKeeps, ApproveKeeps, SubmitKeeps,
     RespondKeeps DEF RequestStep
<1>3. ASSUME NEW c \in Conn, Drop(c) \/ Close(c) \/ LossNoticed(c)
      PROVE  PromptsInv'
  BY <1>3, ConnectionKeeps
<1>4. ASSUME NEW s \in Session, Complete(s)
      PROVE  PromptsInv'
  BY <1>4, CompleteKeeps
<1>5. CASE UNCHANGED vars
  BY <1>5 DEF vars, PromptsInv
<1> QED  BY <1>1, <1>2, <1>3, <1>4, <1>5 DEF Next

\* In every reachable state the table of prompts is in order: who runs, who is
\* current, who began, what can be answered and what the histories have.
THEOREM PromptsInvariant ==
  Spec => []PromptsInv
<1>1. Init => PromptsInv
  BY PromptsInit
<1>2. PromptsInv /\ [Next]_vars => PromptsInv'
  BY PromptsNext
<1> QED  BY <1>1, <1>2, PTL DEF Spec

-----------------------------------------------------------------------------
(* What a client of the fixture may rely on *)

\* The variables of the fixture have their types.
THEOREM PromptTypes ==
  Spec => []TypeOK
<1>1. PromptsInv => TypeOK
  BY DEF PromptsInv, InOrder, Table, OneCurrent, Asked, Told, Chronicle, TypeOK
<1> QED  BY <1>1, PromptsInvariant, PTL

\* However prompts are submitted, replaced, interrupted and cut off, at most one
\* of a session runs on a connection, and it is the one that can be interrupted.
THEOREM OnePromptRuns ==
  Spec => []OnlyOneRuns
<1>1. PromptsInv => OnlyOneRuns
  BY DEF PromptsInv, InOrder, OneCurrent, Runs, Lives, OnlyOneRuns
<1> QED  BY <1>1, PromptsInvariant, PTL

\* No request outlives its prompt, and the prompt that waits for an approval is
\* the one that the next approval of its session resolves.
THEOREM AnswersAlwaysReach ==
  Spec => []AnswersReach
<1>1. ASSUME PromptsInv  PROVE  RequestsLive
  BY <1>1 DEF PromptsInv, InOrder, Asked, RequestsLive, Lives
<1>2. ASSUME PromptsInv  PROVE  ApprovalsReach
  BY <1>2 DEF PromptsInv, InOrder, Asked, Waits, ApprovalsReach
<1>3. PromptsInv => AnswersReach
  BY <1>1, <1>2 DEF AnswersReach
<1> QED  BY <1>3, PromptsInvariant, PTL

\* The exchange of a prompt is in the history of its session when its client was told that it
\* is completed, in none when it was told first of an interruption, never twice.
THEOREM HistoryIsAlwaysEarned ==
  Spec => []HistoryIsEarned
<1>1. ASSUME PromptsInv  PROVE  HistoryIsEarned
  <2>1. Told(prompts, messages)
    BY <1>1 DEF PromptsInv, InOrder
  <2>2. \A s \in Session : messages[s] # None =>
          \A i, j \in DOMAIN messages[s] : messages[s][i] = messages[s][j] => i = j
    BY <2>1 DEF Told, Chronicle
  <2>3. ASSUME NEW n \in DOMAIN prompts, prompts[n].ends # <<>>
        PROVE  LET s == prompts[n].session
                   holders == {t \in Session : messages[t] # None /\
                                 \E i \in DOMAIN messages[t] : messages[t][i] = n}
               IN  /\ prompts[n].ends[1] = "interrupted" => holders = {}
                   /\ prompts[n].ends[1] = "completed" /\ prompts[n].conn # None =>
                        s \in holders \/ \E t \in Session \ {s} : Branch[t] = s
    <3>1. ASSUME NEW t \in Session, messages[t] # None,
                 NEW i \in DOMAIN messages[t], messages[t][i] = n
          PROVE  prompts[n].ends[1] = "completed"
      BY <2>1, <2>3, <3>1 DEF Told, Chronicle
    <3>2. prompts[n].session \in Session
      BY <1>1, TaskRow DEF Prompt
    <3>3. prompts[n].ends[1] = "completed" /\ prompts[n].conn # None =>
            Kept(prompts, messages, n)
      BY <2>1, <2>3 DEF Told
    <3> QED  BY <3>1, <3>2, <3>3 DEF Kept, HoldsIt
  <2> QED  BY <2>2, <2>3 DEF HistoryIsEarned
<1>2. PromptsInv => HistoryIsEarned
  BY <1>1
<1> QED  BY <1>2, PromptsInvariant, PTL

\* A prompt that began to run told its client, if still there, how it ended.
THEOREM StartedPromptsAlwaysEnd ==
  Spec => []StartedPromptsEnd
<1>1. PromptsInv => StartedPromptsEnd
  BY DEF PromptsInv, InOrder, Heard, Lives, Hears, StartedPromptsEnd
<1> QED  BY <1>1, PromptsInvariant, PTL
=============================================================================
