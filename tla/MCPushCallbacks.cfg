\* Three callbacks, a request, its resolution and a turn end, reach tables of two rows directly or through the inbox in every order, with expiry: a resolved request is never announced and every table stays within the limit of the policy.
SPECIFICATION Spec
CONSTANTS
  i1 = i1  i2 = i2  p1 = p1  p2 = p2  s1 = s1  s2 = s2  q1 = q1  q2 = q2
  n0 = n0  n1 = n1  n2 = n2  e0 = e0  e1 = e1  e2 = e2
  r1 = r1  r2 = r2  h1 = h1  h2 = h2  h3 = h3  None = None
  Installation = {i1}
  Principal = {p1}
  Session = {s1}
  Ref = {q1, q2}
  Nonce = {n0, n1, n2}
  Endpoint = {e0, e1, e2}
  Runtime = {r1}
  Hook = {h1, h2, h3}
  HookCalls <- OneRequest
  Bodies = {}
  Policies <- OnlyOpen
  DurableSets <- AllDurable
  InitialDBs <- OnePhone
  DrainLimit = 1
  MaxInFlight = 0
  MaxTime = 1
  TTL = 1
  ChallengeTTL = 2
  MaxEvents = 2
  MaxRegistrations = 1
  MaxAttempts = 2
  Lease = 1
  BackoffCap = 1
  MaxRevision = 2
INVARIANTS
  ResolvedNotAnnounced
  RetentionBounded
SYMMETRY Callbacks
