\* A restart with two running prompts: the quarantine of the one stops the recovery of the other for good.
SPECIFICATION FairSpec
CONSTANTS
  t1 = t1  t2 = t2  chat = chat
  Turn = {t1, t2}
  Chat = chat
  Faults = {"crash"}
  MaxFaults = 1
  MaxLog = 2
  MaxLive = 1
  PageSize = 1
  MaxTime = 1
  MaxEntries = 2
  MaxBindings = 1
  ActiveRetention = 9
  TerminalRetention = 9
PROPERTIES
  OthersReconcile
