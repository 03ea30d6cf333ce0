\* Without any fault, a turn whose events overtake a reconciliation reaches a state whose write the journal refuses, and the chat is stopped until the process ends.
SPECIFICATION Spec
CONSTANTS
  t1 = t1  t2 = t2  chat = chat
  Turn = {t1}
  Chat = chat
  Faults = {}
  MaxFaults = 0
  MaxLog = 4
  MaxLive = 1
  PageSize = 2
  MaxTime = 1
  MaxEntries = 2
  MaxBindings = 1
  ActiveRetention = 9
  TerminalRetention = 9
INVARIANTS
  PoisonNeedsAFault
