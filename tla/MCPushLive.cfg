\* While a runtime stays up the hook inbox is emptied again and again, items of deleted sessions included, and every queued hint is settled within its attempts, although the runtime crashed before, between any two steps and holding a lease.
SPECIFICATION FairSpec
CONSTANTS
  i1 = i1  i2 = i2  p1 = p1  p2 = p2  s1 = s1  s2 = s2  q1 = q1  q2 = q2
  n0 = n0  n1 = n1  n2 = n2  e0 = e0  e1 = e1  e2 = e2
  r1 = r1  r2 = r2  h1 = h1  h2 = h2  h3 = h3  None = None
  Installation = {i1}
  Principal = {p1}
  Session = {s1}
  Ref = {q1, q2}
  Nonce = {n0, n1, n2}
  Endpoint = {e0, e1, e2}
  Runtime = {r1}
  Hook = {h1}
  HookCalls <- OneTurn
  Bodies = {}
  Policies <- OnlyOpen
  DurableSets <- MayVanish
  InitialDBs <- OneHint
  DrainLimit = 1
  MaxInFlight = 0
  MaxTime = 2
  TTL = 3
  ChallengeTTL = 2
  MaxEvents = 2
  MaxRegistrations = 1
  MaxAttempts = 2
  Lease = 1
  BackoffCap = 1
  MaxRevision = 2
PROPERTIES
  InboxDrains
  HintsSettle
