\* Registration, confirmation, revocation and migration of one phone against its delivery thread and an operator who disables push: two PUTs or confirmations in flight, a legacy file, expired challenges and crashed sends never leave a stale queue, an unproved active row, an authority that moves back or a step outside the promised lifecycle.
SPECIFICATION Spec
CONSTANTS
  i1 = i1  i2 = i2  p1 = p1  p2 = p2  s1 = s1  s2 = s2  q1 = q1  q2 = q2
  n0 = n0  n1 = n1  n2 = n2  e0 = e0  e1 = e1  e2 = e2
  r1 = r1  r2 = r2  h1 = h1  h2 = h2  h3 = h3  None = None
  Installation = {i1}
  Principal = {p1}
  Session = {s1}
  Ref = {q1, q2}
  Nonce = {n0, n1, n2}
  Endpoint = {e0, e1, e2}
  Runtime = {r1}
  Hook = {}
  HookCalls = {}
  Bodies <- TwoBodies
  Policies <- OpenOrDisabled
  DurableSets <- AllDurable
  InitialDBs <- EmptyOrLegacy
  DrainLimit = 1
  MaxInFlight = 2
  MaxTime = 2
  TTL = 3
  ChallengeTTL = 2
  MaxEvents = 2
  MaxRegistrations = 1
  MaxAttempts = 2
  Lease = 1
  BackoffCap = 1
  MaxRevision = 2
INVARIANTS
  QueueIsCurrent
  SendIsCurrent
  ActiveIsProved
PROPERTIES
  NoncesAreFresh
  ImplementsLifecycle
  AuthorityMovesForward
