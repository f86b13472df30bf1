SPECIFICATION Spec
CONSTANTS
  MAX_TASKS = 4
  NUM_PRIORITIES = 3
  Cores = {0, 1}
  BootCore = 0
  AnyCore = AnyCore
  Affinity <- SmpAffinity
  BasePrio <- SmpBase
  IdleTask <- SmpIdle
  DEFAULT_QUANTUM = 1
  XTENSA = FALSE
  Mutexes = {m1}
  NoTask = NoTask
  NoMutex = NoMutex
  MAX_MUTEXES = 1
  MAX_WAITERS = 1
INVARIANTS TypeOK ReadyMaskConsistent OneCorePerTask NoRunWhileBlocked ScheduleFindsRunnable GuardsAreOwned
