--------------------------- MODULE FixturePrompts ---------------------------
(***************************************************************************)
(* The classic protocol of the gateway fixture                             *)
(* (tools/fake_gateway/fake_gateway.py): sessions with their histories,    *)
(* and prompts that run as tasks of one event loop.  A task lets the loop  *)
(* go on where it awaits; it can be cancelled there, before its first step *)
(* too.  A send suspends only when the client does not read.               *)
(***************************************************************************)
EXTENDS Naturals, Sequences, FiniteSets

CONSTANTS
  Conn,         \* connections of the dashboard's socket
  Session,      \* sessions
  Fixture,      \* the session that exists from the start
  Branch,       \* Branch[s]: the session a branch of s is kept in, or None
  Kinds,        \* what the text of a prompt asks for
  Question,     \* questions of a batch clarification
  MaxPrompts,   \* bound: prompts and streams
  None

KindNames == {"plain", "approval", "sensitive", "expiring", "clarify", "batch"}

ASSUME PromptsAssumption ==
  /\ Fixture \in Session /\ Branch \in [Session -> Session \cup {None}]
  /\ Kinds \subseteq KindNames /\ MaxPrompts \in Nat
  /\ Question # {} /\ None \notin Conn \cup Seq(Nat)

VARIABLES
  slow,       \* the clients do not read, so that a send suspends
  link,       \* open; gone unnoticed; over; or lost, its handler raised
  prompts,    \* the prompts and the streams in the order they came
  active,     \* active_prompts
  approvals,  \* pending_approvals: one by session
  pending,    \* prompts whose request id can be answered
  messages    \* the history of a session, exchange by exchange, or None

vars == <<slow, link, prompts, active, approvals, pending, messages>>

Init ==
  /\ slow \in BOOLEAN
  /\ link = [c \in Conn |-> "open"]
  /\ prompts = <<>>
  /\ active = [c \in Conn |-> [s \in Session |-> 0]]
  /\ approvals = [c \in Conn |-> [s \in Session |-> 0]]
  /\ pending = {}
  /\ messages = [s \in Session |-> IF s = Fixture THEN <<>> ELSE None]

-----------------------------------------------------------------------------
(* Tasks *)

\* (slip: a prompt without a place for its answer)
NewPromptUnanswered(c, s, kind) ==
  [conn |-> c, session |-> s, kind |-> kind, at |-> "new", stop |-> FALSE,
   answer |-> None, given |-> {}, ends |-> <<>>, ran |-> FALSE]

NewPrompt(c, s, kind) ==
  [conn |-> c, session |-> s, kind |-> kind, at |-> "new", stop |-> FALSE,
   answer |-> "open", given |-> {}, ends |-> <<>>, ran |-> FALSE]

Lives(n) == prompts[n].at # "done"
Hears(n) == link[prompts[n].conn] = "open"

\* Task.cancel: the awaited future is cancelled with it.
CancelledOne(prompt) ==
  IF prompt.at = "done" THEN prompt
  ELSE [prompt EXCEPT
          !.stop = TRUE,
          !.answer = IF prompt.at = "waiting" /\ @ = "open" THEN "cancelled"
                     ELSE @]

Cancelled(ns) ==
  [n \in DOMAIN prompts |-> IF n \in ns THEN CancelledOne(prompts[n])
                            ELSE prompts[n]]

\* (slip: the finally block forgets the request)
FinallyLeaving(n, prompt) ==
  LET c == prompt.conn
      s == prompt.session
  IN /\ prompts' = [prompts EXCEPT ![n] =
                      [prompt EXCEPT !.at = "done", !.stop = FALSE,
                                     !.answer = "open", !.given = {}]]
     /\ active' = IF active[c][s] = n THEN [active EXCEPT ![c][s] = 0]
                  ELSE active
     /\ UNCHANGED <<approvals, pending>>

\* A task is over: its finally block, and the callback that forgets it; what it
\* was answered is of no use any more.
Finally(n, prompt) ==
  LET c == prompt.conn
      s == prompt.session
  IN /\ prompts' = [prompts EXCEPT ![n] =
                      [prompt EXCEPT !.at = "done", !.stop = FALSE,
                                     !.answer = "open", !.given = {}]]
     /\ active' = IF active[c][s] = n THEN [active EXCEPT ![c][s] = 0]
                  ELSE active
     /\ approvals' = IF prompt.kind = "approval" /\ prompt.ran
                     THEN [approvals EXCEPT ![c][s] = 0] ELSE approvals
     /\ pending' = pending \ {n}

\* A frame is written; then the task waits until it is out, or goes on.
Goes(n, prompt, at) ==
  /\ prompts' = [prompts EXCEPT ![n] = [prompt EXCEPT !.at = at]]
  /\ UNCHANGED <<active, approvals, pending>>

Ends(n, status, at) ==
  LET prompt == [prompts[n] EXCEPT !.ends = Append(@, status), !.stop = FALSE]
  IN IF slow THEN Goes(n, prompt, at) ELSE Finally(n, prompt)

Raises(n) == ~Hears(n) /\ Finally(n, prompts[n])

Asks(prompt) ==
  CASE slow -> "asking"
    [] ~slow /\ prompt.kind = "expiring" -> "expiring"
    [] ~slow /\ prompt.kind # "expiring" -> "waiting"

\* The first step.  The loop is fair: a task that was cancelled before this
\* one was created hears of it first.
Start(n) ==
  LET prompt == [prompts[n] EXCEPT !.ran = TRUE]
      s == prompt.session
      c == prompt.conn
  IN /\ prompt.at = "new" /\ ~prompt.stop
     /\ \A m \in 1 .. n - 1 : ~prompts[m].stop
     /\ UNCHANGED <<slow, link, messages>>
     /\ \/ prompt.kind = "plain" /\ Goes(n, prompt, "streaming")
        \/ prompt.kind # "plain" /\ ~Hears(n) /\ Finally(n, prompt)
        \/ /\ prompt.kind # "plain" /\ Hears(n)
           /\ prompts' = [prompts EXCEPT ![n] =
                            [prompt EXCEPT !.at = Asks(prompt)]]
           /\ approvals' = IF prompt.kind = "approval"
                           THEN [approvals EXCEPT ![c][s] = n] ELSE approvals
           /\ pending' = IF prompt.kind = "approval" THEN pending
                         ELSE pending \cup {n}
           /\ UNCHANGED active

RequestSent(n) ==
  LET prompt == prompts[n]
  IN /\ prompt.at = "asking" /\ ~prompt.stop
     /\ UNCHANGED <<slow, link, messages>>
     /\ \/ Raises(n)
        \/ Hears(n) /\ Goes(n, prompt, IF prompt.kind = "expiring"
                                       THEN "expiring" ELSE "waiting")

Answered(n) ==
  LET prompt == prompts[n]
  IN /\ prompt.at = "waiting" /\ ~prompt.stop /\ prompt.answer = "given"
     /\ UNCHANGED <<slow, link, messages>>
     /\ \/ Raises(n)
        \/ Hears(n) /\ Goes(n, prompt, "streaming")

\* The secret that is not waited for expires, answered or not.
Expire(n) ==
  LET prompt == prompts[n]
  IN /\ prompt.at = "expiring" /\ ~prompt.stop
     /\ UNCHANGED <<slow, link, messages>>
     /\ \/ Raises(n)
        \/ /\ Hears(n)
           /\ prompts' = [prompts EXCEPT ![n].at = "streaming"]
           /\ pending' = pending \ {n}
           /\ UNCHANGED <<active, approvals>>

History(s) == IF messages[s] = None THEN <<>> ELSE messages[s]
Extended(s, n) == [messages EXCEPT ![s] = Append(History(s), n)]

\* The deltas are out: the exchange enters the history, then the end is sent.
StreamEnds(n) ==
  /\ prompts[n].at = "streaming" /\ ~prompts[n].stop
  /\ UNCHANGED <<slow, link>>
  /\ \/ Hears(n) /\ messages' = Extended(prompts[n].session, n)
                 /\ Ends(n, "completed", "ending")
     \/ Raises(n) /\ messages' = Extended(prompts[n].session, n)
     \/ Raises(n) /\ UNCHANGED messages

EndSent(n) ==
  /\ prompts[n].at \in {"ending", "stopping"} /\ ~prompts[n].stop
  /\ Finally(n, prompts[n])
  /\ UNCHANGED <<slow, link, messages>>

\* (slips: what was said so far is kept as an exchange; nothing is said)
InterruptedKept(n) ==
  /\ Lives(n) /\ prompts[n].stop
  /\ UNCHANGED <<slow, link>>
  /\ IF Hears(n) /\ prompts[n].at \notin {"new", "stopping"}
     THEN Ends(n, "interrupted", "stopping") /\
          messages' = Extended(prompts[n].session, n)
     ELSE Finally(n, prompts[n]) /\ UNCHANGED messages

InterruptedSilently(n) ==
  /\ Lives(n) /\ prompts[n].stop
  /\ Finally(n, prompts[n])
  /\ UNCHANGED <<slow, link, messages>>

\* The cancellation arrives where the task waits: nothing was run of one that
\* did not start; the others say that they were interrupted, once.
Interrupted(n) ==
  LET at == prompts[n].at
  IN /\ Lives(n) /\ prompts[n].stop
     /\ UNCHANGED <<slow, link, messages>>
     /\ IF Hears(n) /\ at \notin {"new", "stopping"}
        THEN Ends(n, "interrupted", "stopping")
        ELSE Finally(n, prompts[n])

TaskStep(n) ==
  /\ n \in DOMAIN prompts
  /\ prompts[n].conn # None
  /\ \/ Start(n) \/ RequestSent(n) \/ Answered(n) \/ Expire(n)
     \/ StreamEnds(n) \/ EndSent(n) \/ Interrupted(n)

-----------------------------------------------------------------------------
(* Requests *)

\* session.create
Create(s) ==
  /\ messages[s] = None
  /\ messages' = [messages EXCEPT ![s] = <<>>]
  /\ UNCHANGED <<slow, link, prompts, active, approvals, pending>>

\* session.branch: a copy, whatever was kept there.
BranchOff(s) ==
  /\ messages[s] # None /\ Branch[s] # None
  /\ messages' = [messages EXCEPT ![Branch[s]] = messages[s]]
  /\ UNCHANGED <<slow, link, prompts, active, approvals, pending>>

\* (slip: the prompt before it goes on)
SubmitBeside(c, s, kind) ==
  /\ Len(prompts) < MaxPrompts
  /\ prompts' = Append(prompts, NewPrompt(c, s, kind))
  /\ active' = [active EXCEPT ![c][s] = Len(prompts) + 1]
  /\ UNCHANGED <<slow, link, approvals, pending, messages>>

\* prompt.submit: the prompt of the session before it is cancelled.
Submit(c, s, kind) ==
  /\ Len(prompts) < MaxPrompts
  /\ prompts' = Append(Cancelled({active[c][s]}), NewPrompt(c, s, kind))
  /\ active' = [active EXCEPT ![c][s] = Len(prompts) + 1]
  /\ UNCHANGED <<slow, link, approvals, pending, messages>>

\* session.interrupt
Interrupt(c, s) ==
  /\ active[c][s] # 0
  /\ prompts' = Cancelled({active[c][s]})
  /\ UNCHANGED <<slow, link, active, approvals, pending, messages>>

Resolve(n, given) ==
  /\ prompts[n].answer = "open"
  /\ prompts' = [prompts EXCEPT ![n].answer = "given", ![n].given = given]
  /\ UNCHANGED <<slow, link, active, approvals, pending, messages>>

\* approval.respond names the session only.
Approve(c, s) == approvals[c][s] # 0 /\ Resolve(approvals[c][s], {})

\* sudo.respond, secret.respond, clarify.respond; a batch without a question is
\* cancelled as a whole.
Respond(c, n) == prompts[n].conn = c /\ Resolve(n, prompts[n].given)

\* One question of a batch; the last one resolves it.
AnswerQuestion(c, n, q) ==
  LET given == prompts[n].given \cup {q}
  IN /\ prompts[n].conn = c /\ prompts[n].kind = "batch"
     /\ IF given = Question /\ prompts[n].answer = "open"
        THEN Resolve(n, given)
        ELSE /\ prompts' = [prompts EXCEPT ![n].given = given]
             /\ UNCHANGED <<slow, link, active, approvals, pending, messages>>

RequestStep(c) ==
  /\ link[c] = "open"
  /\ \/ \E s \in Session : \/ Create(s) \/ BranchOff(s)
                           \/ Interrupt(c, s) \/ Approve(c, s)
                           \/ \E kind \in Kinds : Submit(c, s, kind)
     \/ \E n \in pending : \/ Respond(c, n)
                           \/ \E q \in Question : AnswerQuestion(c, n, q)

-----------------------------------------------------------------------------
(* Connections *)

Drop(c) ==
  /\ link[c] = "open"
  /\ link' = [link EXCEPT ![c] = "gone"]
  /\ UNCHANGED <<slow, prompts, active, approvals, pending, messages>>

Current(c) == {active[c][s] : s \in Session} \ {0}

\* (slip: the prompts of a connection survive it)
CleanUpNothing(c) ==
  /\ link' = [link EXCEPT ![c] = "over"]
  /\ UNCHANGED <<slow, prompts, active, approvals, pending, messages>>

\* The loop over the frames ends: the prompts of the connection are cancelled.
CleanUp(c) ==
  /\ link' = [link EXCEPT ![c] = "over"]
  /\ prompts' = Cancelled(Current(c))
  /\ UNCHANGED <<slow, active, approvals, pending, messages>>

\* A request that came before the loss cannot be answered: the handler raises,
\* and nobody cleans up.
HandlerRaises(c) ==
  /\ link' = [link EXCEPT ![c] = "lost"]
  /\ UNCHANGED <<slow, prompts, active, approvals, pending, messages>>

Close(c) == link[c] = "open" /\ CleanUp(c)
LossNoticed(c) == link[c] = "gone" /\ (CleanUp(c) \/ HandlerRaises(c))

-----------------------------------------------------------------------------
(* /v1/chat/completions: a stream of its own, outside any connection *)

Complete(s) ==
  /\ Len(prompts) < MaxPrompts
  /\ prompts' = Append(prompts, [NewPrompt(None, s, "plain") EXCEPT
                                   !.at = "streaming", !.ran = TRUE])
  /\ UNCHANGED <<slow, link, active, approvals, pending, messages>>

\* [DONE] is written before the stream is closed: where the closing fails, the
\* client was told and nothing is kept; likewise without a session's header.
CompletionEnds(n) ==
  /\ prompts[n].conn = None /\ prompts[n].at = "streaming"
  /\ \/ /\ prompts' = [prompts EXCEPT ![n].at = "done", ![n].ends = <<"completed">>]
        /\ messages' = Extended(prompts[n].session, n) \/ UNCHANGED messages
     \/ /\ prompts' = [prompts EXCEPT ![n].at = "done"]
        /\ UNCHANGED messages
  /\ UNCHANGED <<slow, link, active, approvals, pending>>

Next ==
  \/ \E n \in DOMAIN prompts : TaskStep(n) \/ CompletionEnds(n)
  \/ \E c \in Conn : RequestStep(c) \/ Drop(c) \/ Close(c) \/ LossNoticed(c)
  \/ \E s \in Session : Complete(s)

Spec == Init /\ [][Next]_vars

\* A send waits, without a timeout, for a client that does not read: it ends
\* when the task is cancelled or the connection breaks.  A connection that was
\* closed in order may still hold what its client has not read.
Unread(n) ==
  /\ slow /\ ~prompts[n].stop
  /\ prompts[n].at \in {"asking", "streaming", "ending", "stopping"}
  /\ link[prompts[n].conn] # "lost"

\* The event loop runs every task that is ready, and notices a lost socket; it
\* does not make a client read.
FairSpec ==
  /\ Spec
  /\ \A n \in 1 .. MaxPrompts : WF_vars(TaskStep(n) /\ ~Unread(n))
  /\ \A c \in Conn : WF_vars(LossNoticed(c))

-----------------------------------------------------------------------------
(* What a client of the fixture may rely on *)

Prompt == [conn : Conn \cup {None}, session : Session, kind : KindNames,
           at : {"new", "asking", "waiting", "expiring", "streaming", "ending",
                 "stopping", "done"},
           stop : BOOLEAN, answer : {"open", "given", "cancelled"},
           given : SUBSET Question, ends : Seq({"completed", "interrupted"}),
           ran : BOOLEAN]

TypeOK ==
  /\ prompts \in Seq(Prompt)
  /\ link \in [Conn -> {"open", "gone", "over", "lost"}]
  /\ active \in [Conn -> [Session -> 0 .. Len(prompts)]]
  /\ approvals \in [Conn -> [Session -> 0 .. Len(prompts)]]
  /\ pending \subseteq DOMAIN prompts
  /\ \A s \in Session : messages[s] # None => messages[s] \in Seq(DOMAIN prompts)

\* A connection runs one prompt of a session at a time: every other one that
\* is not over is already cancelled, and the one that runs can be interrupted.
OnlyOneRuns ==
  \A n \in DOMAIN prompts :
    LET prompt == prompts[n]
    IN Lives(n) /\ ~prompt.stop /\ prompt.at # "stopping" /\ prompt.conn # None
         => active[prompt.conn][prompt.session] = n

\* No request outlives its prompt.
RequestsLive ==
  /\ \A n \in pending : Lives(n)
  /\ \A c \in Conn, s \in Session : approvals[c][s] # 0 => Lives(approvals[c][s])

\* An approval reaches the prompt that waits for it.
ApprovalsReach ==
  \A n \in DOMAIN prompts :
    LET prompt == prompts[n]
    IN /\ ~slow /\ prompt.kind = "approval" /\ prompt.at = "waiting"
       /\ ~prompt.stop /\ prompt.answer = "open"
       => approvals[prompt.conn][prompt.session] = n

\* No answer goes astray: however a prompt ends - answered, expired, cancelled
\* before or while it asks, its connection lost - no request of it is left that
\* could be answered; and while the client reads, the prompt that waits for an
\* approval is the one that the next approval.respond of its session resolves.
AnswersReach == RequestsLive /\ ApprovalsReach

\* The exchange of a prompt is in the history of its session once its client was
\* told that the turn is completed; no exchange is in a history twice, or in one
\* at all when the client was first told that the turn was interrupted.  (A
\* branch is replaced when its parent is branched again.)
HistoryIsEarned ==
  /\ \A s \in Session : messages[s] # None =>
       \A i, j \in DOMAIN messages[s] : messages[s][i] = messages[s][j] => i = j
  /\ \A n \in DOMAIN prompts :
       LET ends == prompts[n].ends
           s == prompts[n].session
           holders == {t \in Session : messages[t] # None /\
                         \E i \in DOMAIN messages[t] : messages[t][i] = n}
       IN ends # <<>> =>
            /\ ends[1] = "interrupted" => holders = {}
            /\ ends[1] = "completed" /\ prompts[n].conn # None =>
                 s \in holders \/ \E t \in Session \ {s} : Branch[t] = s

\* A prompt that began to run tells its client how it ended, if the client is
\* still there.
StartedPromptsEnd ==
  \A n \in DOMAIN prompts :
    prompts[n].conn # None /\ ~Lives(n) /\ prompts[n].ran /\ Hears(n)
      => prompts[n].ends # <<>>

\* When no more prompts come, every prompt is over some time, unless it waits for
\* its user on a connection that was not cleaned up, or for its client to read:
\* the loss of the client, and every cancellation, end it all the same.
PromptsSettle ==
  []<>(\A n \in DOMAIN prompts :
         \/ prompts[n].conn = None \/ ~Lives(n) \/ Unread(n)
         \/ prompts[n].at = "waiting" /\ link[prompts[n].conn] # "over")
=============================================================================
