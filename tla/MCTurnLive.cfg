\* Under fairness of the gateway, of the coordinator's queue and of the user's return to the chat, a turn the gateway has ends completed or quarantined in the journal although connections break, the app is killed and its events are pruned.
SPECIFICATION FairSpec
CONSTANTS
  t1 = t1  t2 = t2  chat = chat
  Turn = {t1}
  Chat = chat
  Faults = {"socket", "crash", "prune"}
  MaxFaults = 2
  MaxLog = 3
  MaxLive = 1
  PageSize = 1
  MaxTime = 1
  MaxEntries = 2
  MaxBindings = 1
  ActiveRetention = 9
  TerminalRetention = 9
PROPERTIES
  TurnsAreResolved
CHECK_DEADLOCK FALSE
