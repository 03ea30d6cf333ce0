\* Two connections share the turn ledger of the gateway fixture while prompts are sent again on the other one, connections break before, between and after the answers, files cannot be written and the process restarts: the file can always be loaded, what was acknowledged is kept, pages have no gap, a turn is served once and the record keeps the promise of TurnBook.
SPECIFICATION Spec
CONSTANTS
  c1 = c1  c2 = c2  m1 = m1  m2 = m2  k1 = k1  d1 = d1  d2 = d2
  None = None
  Conn = {c1, c2}
  Mobile = {m1, m2}
  ClientTurn = {k1}
  Request = {d1, d2}
  Faults = {"before_ack", "before_first_delta", "mid_stream", "after_completion"}
  PageSize = 2
  MaxOpens = 3
  MaxSubmits = 2
  PruneUpTo = 1
  MaxTrouble = 1
INVARIANTS
  TypeOK
  LedgerLoads
  AcksAreKept
  PagesAreContiguous
  TurnsAreServedOnce
PROPERTIES
  ImplementsBook
SYMMETRY Alike
