----------------------------- MODULE PushPolicy -----------------------------
(***************************************************************************)
(* The operator's policy and the subscription scope of the mobile-push     *)
(* plugin (server/mobile-push/mobile_push/config.py and scope.py): who may *)
(* use push, which sessions they may hear of, and how a subscription       *)
(* narrows that.  Everything here is a pure function of its arguments.     *)
(***************************************************************************)

CONSTANTS
  Principal,    \* verified dashboard identities, (provider, user_id)
  Session       \* durable session identifiers

\* config.json as Profile.policy reads it: an unreadable or invalid file
\* raises (readable = FALSE), a missing one is the disabled policy.  The file
\* sets no timing and no bound: those are constants of the store.
Policy ==
  [readable : BOOLEAN, enabled : BOOLEAN,
   grants : [Principal -> SUBSET Session], admits : SUBSET Principal,
   owners : SUBSET Principal]

\* Policy.allowed: owners hear of every session, the others of their grant.
Allowed(pol, p, s) == p \in pol.owners \/ s \in pol.grants[p]

\* Policy.admitted: a principal named in the file, with a grant or as owner.
Admitted(pol, p) == p \in pol.owners \/ p \in pol.admits

\* A subscription names its sessions, or follows the operator's grant.
Scope == [mode : {"explicit", "authorized"}, sessions : SUBSET Session]

\* SessionScope.from_body: what a registration may ask for.
WellFormedScope(sc) ==
  \/ sc.mode = "authorized" /\ sc.sessions = {}
  \/ sc.mode = "explicit" /\ sc.sessions # {}

\* SessionScope.allows: the subscription narrows the live grant.
ScopeAllows(sc, p, s, pol) ==
  /\ pol.enabled
  /\ Admitted(pol, p)
  /\ Allowed(pol, p, s)
  /\ sc.mode = "authorized" \/ s \in sc.sessions

\* SessionScope.ready: every named session is allowed and durable now; a
\* dynamic scope only needs an admitted principal.
ScopeReady(sc, p, pol, durable) ==
  /\ pol.enabled
  /\ Admitted(pol, p)
  /\ \A s \in sc.sessions : ScopeAllows(sc, p, s, pol) /\ s \in durable

=============================================================================
