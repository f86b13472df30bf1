SPECIFICATION FairSpec
CONSTANTS
  Tasks = {t1, t2, t3}
  Objects = {s}
  MAX_QUEUES = 1
  MAX_WAITERS = 3
  Semaphores = {s}
  Queues = {}
  RMutexes = {}
  Groups = {}
  SEM_MAX = 2
  CAPACITY = 2
  DEPTH_MAX = 2
  Bits = {b1, b2}
  MAX_WAKE = 3
  Timed = {s}
  ISR_REMOTE = FALSE
  NoOwner = NoOwner
  NoCall = NoCall
PROPERTY FiniteCallsReturn
