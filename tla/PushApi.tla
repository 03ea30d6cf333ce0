------------------------------ MODULE PushApi -------------------------------
(***************************************************************************)
(* The HTTP handlers of the mobile-push plugin that write                  *)
(* (server/mobile-push/mobile_push/api.py).  A handler runs in a thread:   *)
(* register reads the policy, looks the endpoint up in DNS and only then   *)
(* opens its transaction, so the world may change in between; confirm      *)
(* reads the policy before its transaction, delete inside it.              *)
(***************************************************************************)
EXTENDS PushState

\* Every handler constructs Store, which migrates the file in a transaction of
\* its own before the handler's.
OpenStore ==
  /\ ~ Opened
  /\ ~ Locked
  /\ db' = Migrate(db)
  /\ UNCHANGED <<inbox, inboxSeq, operatorVars, now, apiVars, rt, hook, historyVars>>

\* PUT: the checks before DNS.
SubmitPut(p, i, body) ==
  /\ Cardinality(puts) + Cardinality(confirms) < MaxInFlight
  /\ PolicyFor(p)
  /\ WellFormedScope(body.scope)
  /\ ScopeReady(body.scope, p, policy, durable)
  /\ puts' = puts \cup {[principal |-> p, installation |-> i, body |-> body]}
  /\ UNCHANGED <<storeVars, operatorVars, now, confirms, rt, hook, historyVars>>

\* PUT: the transaction, which looks at neither policy nor scope again.
CommitPut(c) ==
  /\ c \in puts
  /\ Opened
  /\ ~ Locked
  /\ PutAllowed(db, c.principal, c.installation, c.body)
  /\ db' = Put(db, c.principal, c.installation, c.body, now)
  /\ puts' = puts \ {c}
  /\ UNCHANGED <<inbox, inboxSeq, operatorVars, now, confirms, rt, hook, historyVars>>

\* POST confirm: a client knows the secrets its endpoint was sent, or guesses
\* (0).  The policy of the scope check is read here.
SubmitConfirm(p, i, generation, secret) ==
  /\ Cardinality(puts) + Cardinality(confirms) < MaxInFlight
  /\ PolicyFor(p)
  /\ confirms' = confirms \cup
       {[principal |-> p, installation |-> i, generation |-> generation,
         secret |-> secret, policy |-> policy]}
  /\ UNCHANGED <<storeVars, operatorVars, now, puts, rt, hook, historyVars>>

CommitConfirm(c) ==
  /\ c \in confirms
  /\ Opened
  /\ ~ Locked
  /\ ConfirmAllowed(db, c.principal, c.installation, c.generation, c.secret,
                    c.policy, durable, now)
  /\ db' = Confirm(db, c.installation)
  /\ confirms' = confirms \ {c}
  /\ UNCHANGED <<inbox, inboxSeq, operatorVars, now, puts, rt, hook, historyVars>>

\* A handler ends without effect: refused by its transaction, an unsafe
\* endpoint, SQLITE_BUSY during a send, a client or a process that went away.
AbandonPut(c) ==
  /\ c \in puts
  /\ puts' = puts \ {c}
  /\ UNCHANGED <<storeVars, operatorVars, now, confirms, rt, hook, historyVars>>

AbandonConfirm(c) ==
  /\ c \in confirms
  /\ confirms' = confirms \ {c}
  /\ UNCHANGED <<storeVars, operatorVars, now, puts, rt, hook, historyVars>>

\* DELETE
RevokeRegistration(p, i) ==
  /\ Opened
  /\ ~ Locked
  /\ RevokeAllowed(db, p, i, policy)
  /\ db' = Revoke(db, p, i)
  /\ UNCHANGED <<inbox, inboxSeq, operatorVars, now, apiVars, rt, hook, historyVars>>

\* The secrets a client can present: those of challenges that were sent.
KnownSecrets == {0} \cup {w.event : w \in {v \in wire : v.kind = "challenge"}}

Generations == {db.reg[i].generation : i \in Installation}

ApiStep ==
  \/ OpenStore
  \/ \E p \in Principal, i \in Installation, body \in Bodies : SubmitPut(p, i, body)
  \/ \E c \in puts : CommitPut(c)
  \/ \E p \in Principal, i \in Installation, g \in Generations,
       secret \in KnownSecrets : SubmitConfirm(p, i, g, secret)
  \/ \E c \in confirms : CommitConfirm(c)
  \/ \E c \in puts : AbandonPut(c)
  \/ \E c \in confirms : AbandonConfirm(c)
  \/ \E p \in Principal, i \in Installation : RevokeRegistration(p, i)

=============================================================================
