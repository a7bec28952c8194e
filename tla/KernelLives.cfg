\* Threads created, stopped, killed and released beside a mutex, while an
\* interrupt gives to a semaphore.  A wild context load stops the machine.
SPECIFICATION Spec
INVARIANTS KernelInv MutexHasLivingOwner
PROPERTIES ImplementsThreadTable
CHECK_DEADLOCK FALSE
CONSTANTS
  s = s
  m = m
  items = items
  room = room
  NoQ = NoQ
  NThreads = 3
  Waitqs = {s, m}
  Mutexes = {m}
  Partner <- NoPartner
  Initial <- StartCounts
  Limit <- UpToOne
  IsrQs = {s}
  InitPrio <- LowestFirst
  NewPrios = {1}
  Boosts = {}
  PrioMax = 2
  AgeMax = 0
  AgePeriod = 1
  PendingMax = 2
  Timeouts <- Forever
  Sleeps = {1}
  Killable = {1}
  Stoppable = {2}
  Careless = {}
  MayOverrun = {}
  MaxDepth = 1
  MaxLock = 0
