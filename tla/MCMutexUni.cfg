SPECIFICATION Spec
CONSTANTS
  MAX_TASKS = 4
  NUM_PRIORITIES = 4
  Cores = {0}
  BootCore = 0
  AnyCore = AnyCore
  Affinity <- UniAffinity
  BasePrio <- UniBase
  IdleTask <- UniIdle
  DEFAULT_QUANTUM = 1
  XTENSA = TRUE
  Mutexes = {m1, m2}
  NoTask = NoTask
  NoMutex = NoMutex
  MAX_MUTEXES = 2
  MAX_WAITERS = 2
INVARIANTS WaitersMatchTasks InheritanceExact WalkCoversChain
