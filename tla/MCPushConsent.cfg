\* Grants, durable sessions and registrations change while an event waits in a callback, the inbox or the outbox and a phone pages through its events, and a second principal tries the same registration: an event is queued only for the generations captured when it happened, and no page skips one.
SPECIFICATION ReaderSpec
CONSTANTS
  i1 = i1  i2 = i2  p1 = p1  p2 = p2  s1 = s1  s2 = s2  q1 = q1  q2 = q2
  n0 = n0  n1 = n1  n2 = n2  e0 = e0  e1 = e1  e2 = e2
  r1 = r1  r2 = r2  h1 = h1  h2 = h2  h3 = h3  None = None
  Installation = {i1}
  Principal = {p1, p2}
  Session = {s1}
  Ref = {q1, q2}
  Nonce = {n0, n1, n2}
  Endpoint = {e0, e1, e2}
  Runtime = {r1}
  Hook = {h1}
  HookCalls <- OneTurn
  Bodies <- Renewal
  Policies <- OpenOrNarrow
  DurableSets <- MayVanish
  InitialDBs <- OnePhone
  DrainLimit = 1
  MaxInFlight = 1
  MaxTime = 0
  TTL = 2
  ChallengeTTL = 2
  MaxEvents = 2
  MaxRegistrations = 1
  MaxAttempts = 2
  Lease = 1
  BackoffCap = 1
  MaxRevision = 2
  Reader = p1
  PageLimit = 1
INVARIANTS
  QueuedWasCaptured
  NothingIsSkipped
