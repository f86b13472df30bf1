SPECIFICATION PlatformSpec
CONSTANTS
  Units = {"once", "locks", "dma", "xip", "timers", "heap", "channels"}
  Callers = {o1, o2, o3}
  NoValue = NoValue
  Cores = {0, 1}
  NoCore = NoCore
  SCHEDULER = SCHEDULER
  QUEUE_WAITERS = QUEUE_WAITERS
  CELL = CELL
  Spinlocks = {SCHEDULER, QUEUE_WAITERS}
  Cells = {CELL}
  Paths <- KernelPaths
  Machines = {"xtensa", "rp2040"}
  DmaTasks = {t1, t2}
  Sizes = {1, 6, 13, 15}
  POOL_SIZE = 12
  MAX_WORD = 15
  DEPTH = 2
  MAX_TRANSFERS = 3
  NoTransfer = NoTransfer
  MAX_GEN = 3
  MAX_JOB = 2
  Sleepers = {"s"}
  Callbacks = {"o", "p"}
  Periodic = {"p"}
  MAX_TIMERS = 2
  HALF = 2
  MAX_TICKS = 3
  MAX_REGS = 1
  TimeMachines = {"arm", "xtensa"}
  TimeUses = {"sleep", "timers"}
  USIZE = 64
  ALIGN = 2
  HEADER = 2
  MIN_BLOCK = 4
  HeapRegions <- PoolRegions
  AllocSizes = {0, 3, 6, 50, 63}
  Aligns = {1, 8, 32}
  MAX_LIVE = 3
  CHANNELS = 3
  MAX_EXCHANGES = 2
  MAX_PEER_USES = 1
  MAX_TAKEN = 1
  HandlerCores = {"task", "peer"}
  NoExchange = NoExchange
INVARIANTS
  TypePlatform OnceExclusive SectionsExclude BuffersDisjoint
  XipExclusion DeadlineKept TimersKept HeapTiles TransferOver
PROPERTY ReleasedWhenDone
CHECK_DEADLOCK FALSE
