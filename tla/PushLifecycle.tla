--------------------------- MODULE PushLifecycle ----------------------------
(***************************************************************************)
(* What the mobile-push server promises an installation, with no queue, no *)
(* lease and no database: a registration proves its endpoint before it is  *)
(* used, every change of authority is a new generation, revocation is for  *)
(* ever, and authority never changes while a hint is on the wire.          *)
(***************************************************************************)
EXTENDS Naturals

CONSTANT Installation

VARIABLES
  status,      \* absent, pending, active, revoked or upgrade_required
  generation,  \* of the installation's current authority
  reached,     \* the endpoint was sent the challenge of this generation
  flying       \* the hint on the wire, a set of at most one

lifecycleVars == <<status, generation, reached, flying>>

Init ==
  /\ status \in [Installation -> {"absent", "pending", "active", "revoked",
                                  "upgrade_required"}]
  /\ generation \in [Installation -> Nat]
  /\ reached = [i \in Installation |-> FALSE]
  /\ flying = {}

NewAuthority(i, s) ==
  /\ flying = {}
  /\ status' = [status EXCEPT ![i] = s]
  /\ generation' = [generation EXCEPT ![i] = @ + 1]
  /\ reached' = [reached EXCEPT ![i] = FALSE]
  /\ UNCHANGED flying

Propose(i) == status[i] # "revoked" /\ NewAuthority(i, "pending")

End(i) == status[i] # "revoked" /\ NewAuthority(i, "revoked")

\* Registrations of an older format lose their authority, all at once.
Upgrade(I) ==
  /\ I # {}
  /\ flying = {}
  /\ \A i \in I : status[i] \in {"pending", "active"}
  /\ status' = [i \in Installation |->
                  IF i \in I THEN "upgrade_required" ELSE status[i]]
  /\ generation' = [i \in Installation |->
                      IF i \in I THEN generation[i] + 1 ELSE generation[i]]
  /\ reached' = [i \in Installation |-> IF i \in I THEN FALSE ELSE reached[i]]
  /\ UNCHANGED flying

Activate(i) ==
  /\ flying = {}
  /\ status[i] = "pending"
  /\ reached[i]
  /\ status' = [status EXCEPT ![i] = "active"]
  /\ UNCHANGED <<generation, reached, flying>>

\* A hint leaves, for the current generation of a live registration; the hint
\* of a pending one is its challenge.
Send(i) ==
  /\ flying = {}
  /\ status[i] \in {"pending", "active"}
  /\ flying' = {[installation |-> i, generation |-> generation[i]]}
  /\ reached' = [reached EXCEPT ![i] = @ \/ status[i] = "pending"]
  /\ UNCHANGED <<status, generation>>

\* The answer arrives, or nobody is left to hear it.
Land == flying # {} /\ flying' = {} /\ UNCHANGED <<status, generation, reached>>

\* The push service says that the endpoint is gone.
Gone(i) ==
  /\ \E f \in flying : f.installation = i /\ f.generation = generation[i]
  /\ flying' = {}
  /\ status' = [status EXCEPT ![i] = "revoked"]
  /\ generation' = [generation EXCEPT ![i] = @ + 1]
  /\ reached' = [reached EXCEPT ![i] = FALSE]

Next ==
  \/ \E i \in Installation : Propose(i) \/ End(i) \/ Activate(i) \/ Send(i) \/ Gone(i)
  \/ \E I \in SUBSET Installation : Upgrade(I)
  \/ Land

Spec == Init /\ [][Next]_lifecycleVars

=============================================================================
