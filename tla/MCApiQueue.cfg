SPECIFICATION FairSpec
CONSTANTS
  Tasks = {s1, r1, r2}
  Objects = {q, other}
  MAX_QUEUES = 1
  MAX_WAITERS = 2
  Senders = {s1}
  Receivers = {r1, r2}
  Isrs = {}
  Q = q
  N = 1
  Modes = {"now", "finite"}
  NoMode = NoMode
INVARIANT ListTellsOutcome
PROPERTY FiniteCallsReturn
