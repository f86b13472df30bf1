SPECIFICATION Spec
CONSTANTS
  Tasks = {0, 1, 2, 3, 4}
  Objects = {q}
  MAX_QUEUES = 2
  MAX_WAITERS = 2
  Cores = {0, 1}
  IdleTask <- DuoIdle
  Residents = {2}
  PoolStack <- DuoPool
  Stacks = {k1, k2}
  Machines = {"xtensa", "rp2040"}
  NoStack = NoStack
  NoJob = NoJob
INVARIANT StacksSafe
SYMMETRY Symmetry
CHECK_DEADLOCK FALSE
