------------------------------- MODULE MCPush -------------------------------
(***************************************************************************)
(* Small instances of PushServer: values for its constants, from which     *)
(* each configuration picks.                                               *)
(***************************************************************************)
EXTENDS PushInvariants, TLC

CONSTANTS i1, i2, p1, p2, s1, s2, q1, q2, n0, n1, n2, e0, e1, e2, r1, r2,
          h1, h2, h3

\* The operator's files: both principals admitted, push disabled, no session
\* granted.
Granting(S) ==
  [readable |-> TRUE, enabled |-> TRUE, grants |-> [p \in Principal |-> S],
   admits |-> Principal, owners |-> {}]

Open == Granting(Session)
Disabled == [NoPolicy EXCEPT !.readable = TRUE]
Narrow == [Open EXCEPT !.grants = [p \in Principal |-> {}]]

OnlyOpen == {Open}
OpenOrNarrow == {Open, Narrow}
OpenOrDisabled == {Open, Disabled}

AllDurable == {Session}
MayVanish == {Session, {}}

Dynamic == [mode |-> "authorized", sessions |-> {}]
Explicit == [mode |-> "explicit", sessions |-> Session]

\* Two registrations of a phone that moves from one endpoint to another; the
\* second has the nonce a database of an older format was written with.
FirstBody ==
  [revision |-> 1, nonce |-> n1, endpoint |-> e1, kinds |-> HookKinds,
   scope |-> Explicit]
SecondBody ==
  [revision |-> 2, nonce |-> n0, endpoint |-> e2, kinds |-> HookKinds,
   scope |-> Dynamic]
TwoBodies == {FirstBody, SecondBody}

\* The renewal of a phone that is already registered.
RenewalBody == [FirstBody EXCEPT !.revision = 2, !.scope = Dynamic]
Renewal == {RenewalBody}

\* A database on which every installation of I is active, by p1.
ActiveRow(endpoint) ==
  [owner |-> p1, generation |-> 1, status |-> "active", nonce |-> n0,
   endpoint |-> endpoint, kinds |-> HookKinds, scope |-> Dynamic,
   challenge |-> 0, deadline |-> ChallengeTTL, revision |-> 1]

ActiveDB(I) ==
  [EmptyDB EXCEPT
     !.reg = [i \in Installation |-> IF i \in I THEN ActiveRow(e0) ELSE NoRow],
     !.nonces = I \X {n0}]

\* A file written before registrations had revisions.
LegacyDB ==
  [ActiveDB({i1}) EXCEPT !.reg[i1].revision = 0, !.nonces = {}]

EmptyOrLegacy == {EmptyDB, LegacyDB}
OnePhone == {ActiveDB({i1})}

Input(s, q) == [kind |-> "input", session |-> s, ref |-> q]
InputResolved(s, q) == [kind |-> "input_resolved", session |-> s, ref |-> q]
TurnDone(s, q) == [kind |-> "turn_done", session |-> s, ref |-> q]

\* A database in which the hint of an earlier turn waits to be sent.
Hinted(d, ev) ==
  LET targets == CaptureTargets(d, ev, Open)
      order == CHOOSE f \in ScanOrders(Recipients(d, ev, targets, Open)) : TRUE
  IN  Record(d, ev, targets, Open, order, TTL, 0)

OneHint == {Hinted(ActiveDB({i1}), TurnDone(s1, q2))}

OneTurn == {TurnDone(s1, q1)}
OneRequest == {Input(s1, q1), InputResolved(s1, q1), TurnDone(s1, q2)}

\* Callbacks are interchangeable.
Callbacks == Permutations(Hook)

\* So are the processes that load the plugin.
Runtimes == Permutations(Runtime)

=============================================================================
