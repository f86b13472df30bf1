SPECIFICATION FairSchedSpec
CONSTANTS
  MAX_TASKS = 3
  NUM_PRIORITIES = 2
  Cores = {0}
  BootCore = 0
  AnyCore = AnyCore
  Affinity <- PeersAffinity
  BasePrio <- PeersBase
  IdleTask <- PeersIdle
  DEFAULT_QUANTUM = 3
  XTENSA = TRUE
PROPERTIES RoundRobin Preemption
