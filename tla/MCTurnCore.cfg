\* One prompt under every trouble, twice in a run: broken connections, lost answers, killed apps, failing writes, pruned ledgers, unreadable and missing frames, calls that overtake the loss of their connection, and a clock that is set.
SPECIFICATION Spec
CONSTANTS
  t1 = t1  t2 = t2  chat = chat
  Turn = {t1}
  Chat = chat
  Faults = {"socket", "crash", "timeout", "garble", "miss", "prune", "overtake", "storage"}
  MaxFaults = 2
  MaxLog = 3
  MaxLive = 2
  PageSize = 2
  MaxTime = 2
  MaxEntries = 2
  MaxBindings = 1
  ActiveRetention = 9
  TerminalRetention = 0
INVARIANTS
  TypeOK
  PromptsAreRecorded
  MirrorsGateway
  EntriesAreReadable
  FailuresAreSealed
  PoisonSilences
PROPERTIES
  OutcomesAreFinal
CHECK_DEADLOCK FALSE
