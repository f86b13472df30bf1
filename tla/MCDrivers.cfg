SPECIFICATION DriversSpec
CONSTANTS
  Tasks = {t1, t2, t3}
  sem = sem
  queue = queue
  mutex = mutex
  mutexT = mutexT
  group = group
  Objects = {sem, queue, mutex, mutexT, group}
  MAX_QUEUES = 1
  MAX_WAITERS = 3
  Semaphores = {sem}
  Queues = {queue}
  RMutexes = {mutex, mutexT}
  Groups = {group}
  SEM_MAX = 2
  CAPACITY = 2
  DEPTH_MAX = 2
  Bits = {b1, b2}
  MAX_WAKE = 3
  Timed = {mutexT}
  ISR_REMOTE = FALSE
  NoOwner = NoOwner
  NoCall = NoCall
  Parts = {"spi", "claims", "pio", "osi", "phy", "phycs", "station", "isolation", "boot"}
  Hosts = {h2, h3}
  SPI_CHANNELS = 1
  SPI_MAX_BYTES = 2
  DESC_MAX_LEN = 2
  MAX_DESCS = 2
  OpLens = {0, 1, 3, 5}
  SpiUsers = {h2}
  MAX_SPI_CALLS = 2
  NoHost = NoHost
  EspCtrls = {esp0}
  PicoCtrls = {pico0}
  PicoSlaves = {slave0}
  I2C_MAX_BYTES = 2
  MAX_PAYLOAD = 3
  OpLists <- SomeOps
  TX_DEPTH = 1
  SERVE_LEN = 2
  MAX_I2C_CALLS = 3
  taskA = taskA
  irqA = irqA
  taskB = taskB
  unitA = unitA
  unitB = unitB
  pioBlock = pioBlock
  pinA = pinA
  pinB = pinB
  Openers = {taskA, irqA, taskB}
  Handlers = {irqA}
  CoreOfOpener <- OpenerCores
  Plans <- OpenPlans
  Group <- EdgeGroups
  MAX_OPENS = 1
  NoOpener = NoOpener
  Machines = {0, 1}
  PIO_WORDS = 4
  PioPrograms <- SomePrograms
  PIO_FIFO = 1
  MAX_PIO_CALLS = 2
  BlobIds = {id1, id2}
  HeapBlocks = {m1, m2, m3}
  MAX_ALLOCS = 2
  MAX_OBJECTS = 2
  THREAD_SEMAPHORES = 1
  MAX_OSI_CALLS = 3
  NoBlock = NoBlock
  PhyUsers = {u1, u2}
  PHY_CONCURRENT = FALSE
  PHY_RACE = FALSE
  PhyCores = {0, 1}
  MAX_PHY_CALLS = 6
  MAX_PHY_NEST = 2
  StaChannels = {1, 6}
  STA_RING = 2
  STA_RECORDS = 1
  STA_POLITE = TRUE
  MAX_STA_CALLS = 6
  IsoIds = {0, 1, 2}
  IsoCores = {0, 1}
  POOL_UNITS = 32
  MIN_STACK = 8
  MAX_STACK = 16
  MIN_DATA = 2
  MAX_DATA = 4
  SizesTried = {4, 8, 9}
  DataTried = {0, 1, 2}
  MAX_SPAWNS = 3
  NoTask = NoTask
  NoMemory = NoMemory
  Panic = Panic
  BootMachines = {"rp2040", "esp32"}
  MAX_EXCHANGES = 9
  MAX_READY = 3
  MAX_STUMBLES = 3
  CPS_TAKES_PENDING = FALSE
INVARIANTS
  TypeDrivers ObjectsRight BusRight PicoRight RadioRight IsolationKept BootRight
CHECK_DEADLOCK FALSE
