\* Three chats share a journal of two entries and two bindings while the clock is set and the process restarts: it stays readable, never drops a prompt whose fate is open and never locks a chat out for one that is over.
SPECIFICATION Spec
CONSTANTS
  c1 = c1  c2 = c2  c3 = c3  t1 = t1  t2 = t2  t3 = t3  t4 = t4
  Scope = {c1, c2, c3}
  Turn = {t1, t2, t3, t4}
  ScopeOf <- ChatOf
  MaxEntries = 2
  MaxBindings = 2
  ActiveRetention = 1
  TerminalRetention = 0
  MaxTime = 3
INVARIANTS
  TypeOK
  Readable
  NoLockout
PROPERTIES
  PendingIsKept
  PoisonAbsorbs
