\* Prompts of two sessions run as tasks of the fixture's event loop while they are replaced, interrupted, answered, expire or lose their connection, with a client that reads and one that does not: one prompt of a session runs, answers reach it, the history has what was said to be completed, and every prompt is over some time that neither its user nor a client that does not read holds up.
SPECIFICATION FairSpec
CONSTANTS
  c1 = c1  s0 = s0  s1 = s1  q1 = q1  q2 = q2
  None = None
  Conn = {c1}
  Session = {s0, s1}
  Fixture = s0
  Branch <- OneBranch
  Kinds = {"plain", "approval", "expiring", "batch"}
  Question = {q1, q2}
  MaxPrompts = 2
INVARIANTS
  TypeOK
  OnlyOneRuns
  AnswersReach
  HistoryIsEarned
  StartedPromptsEnd
PROPERTIES
  PromptsSettle
CHECK_DEADLOCK FALSE
