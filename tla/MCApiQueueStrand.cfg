SPECIFICATION FairSpec
CONSTANTS
  Tasks = {r1}
  Objects = {q}
  MAX_QUEUES = 1
  MAX_WAITERS = 1
  Senders = {}
  Receivers = {r1}
  Isrs = {isr}
  Q = q
  N = 1
  Modes = {"now", "forever"}
  NoMode = NoMode
PROPERTY NoStrandedReceiver
